---- MODULE Spec2Model ----
(***************************************************************************)
(* Verification model of the youtube-archiver download job queue           *)
(* (engine/job_queue.py) and of the search resolver's enqueue step         *)
(* (engine/search_resolution.py).                                          *)
(*                                                                         *)
(* The download_jobs table is a sequence of rows; a row's index is its     *)
(* SQLite rowid (rows are inserted with increasing rowid and never         *)
(* deleted).  Timestamps are stored as datetime.isoformat() text and are   *)
(* compared as text by SQL, so they are modelled as character sequences    *)
(* compared lexicographically.  The columns completed, canceled and        *)
(* updated_at, which the code writes but no query reads, and the columns   *)
(* media_type, output_dir and context_json, which no update touches, are   *)
(* left out of the rows.                                                   *)
(***************************************************************************)
EXTENDS Integers, Sequences, FiniteSets, TLC

\* ------------------------------------------------------------------ bounds
MaxJobs == 2
MaxClock == 2
retry_delay_seconds == 1
MaxAttemptsCount == 2

\* --------------------------------------------------------------- constants
_DEFAULT_MAX_ATTEMPTS == 3

_ALLOWED_ORIGINS == {"playlist", "search"}
_TERMINAL_STATUSES == {"completed", "failed", "canceled"}

NULL == "NULL"
NoTime == <<>>

Sources == {"youtube", "youtube_music"}
Urls == {"u1", "u2"}
Requests == {"r1", "r2"}
\* job_max_attempts values a caller passes; 0 stands for None/unset
MaxAttemptsArgs == {0, 2}

VARIABLES jobs, clock, last, inserted, semaphores, workers, supervisor, stop_event, threads,
          downloads, playlist_videos, pending_copies, lock_file, runs, obs,
          running, state, run_lock, callers, run_tasks, run_id, answer,
          search_requests, search_items, resolved,
          pure_call,
          started, schedule_config, scheduler_job, schedule_next_run, schedule_last_run,
          schedule_state,
          wall, waiter, stop_flag,
          delivery, watcher, consumers,
          progress_current, recorders, outcomes,
          pass, canceled

queueVars == <<jobs, clock, last, inserted, semaphores, workers, supervisor, stop_event, threads>>
engineVars == <<semaphores, workers, supervisor, stop_event, threads>>
\* the state run_once (engine/core.py) works on
coreVars == <<downloads, playlist_videos, pending_copies, lock_file, runs, obs>>
\* the run guard of the HTTP surface (api/main.py)
scheduleVars == <<started, schedule_config, scheduler_job, schedule_next_run, schedule_last_run,
                  schedule_state>>
apiVars == <<running, state, run_lock, callers, run_tasks, run_id, answer, scheduleVars>>
\* the search database (engine/search_resolution.py)
searchVars == <<search_requests, search_items, resolved>>
\* the last call of a pure function: its arguments and its result
pureVars == <<pure_call>>
\* the downtime wait: the wall clock in minutes, the waiting thread, its stop event
downtimeVars == <<wall, waiter, stop_flag>>
\* client delivery: the handle with its file, its watcher thread, the consumers
deliveryVars == <<delivery, watcher, consumers>>
\* EngineStatus.progress_current (None is 0), each worker's position in _record_progress, and the number of outcomes recorded
statusVars == <<progress_current, recorders, outcomes>>
\* run_search_resolution_once in progress, and the cancel calls that returned True
passVars == <<pass, canceled>>
\* what the operations of one part never touch
outsideQueue == <<coreVars, apiVars, searchVars, pureVars, downtimeVars, deliveryVars, statusVars, passVars>>
outsideCore == <<queueVars, apiVars, searchVars, pureVars, downtimeVars, deliveryVars, statusVars, passVars>>
outsideApi == <<queueVars, coreVars, searchVars, pureVars, downtimeVars, deliveryVars, statusVars, passVars>>
outsidePure == <<queueVars, coreVars, apiVars, searchVars, downtimeVars, deliveryVars, statusVars, passVars>>
outsideDowntime == <<queueVars, coreVars, apiVars, searchVars, pureVars, deliveryVars, statusVars, passVars>>
outsideDelivery == <<queueVars, coreVars, apiVars, searchVars, pureVars, statusVars, passVars>>
outsideStatus == <<queueVars, coreVars, apiVars, searchVars, pureVars, downtimeVars, deliveryVars, passVars>>
\* what the adapter leaves alone outside the queue: all but the history tables
outsideAdapter == <<pending_copies, lock_file, runs, obs, apiVars, searchVars, pureVars, downtimeVars, deliveryVars, statusVars, passVars>>
outsidePass == <<queueVars, coreVars, apiVars, searchVars, pureVars, downtimeVars, deliveryVars, statusVars>>
vars == <<queueVars, coreVars, apiVars, searchVars, pureVars, downtimeVars, deliveryVars, statusVars, passVars>>

\* ------------------------------------------------------------- timestamps
Digit(d) == 48 + d

\* datetime.isoformat() of the instant t seconds into the run: the seconds
\* field is two digits wide; the date and the higher time fields are a
\* fixed-width prefix common to all values of a run and are left out.
isoformat(t) == <<Digit(t \div 10), Digit(t % 10)>>

_utc_now == isoformat(clock)

\* SQLite BINARY collation on TEXT: bytewise, a proper prefix sorts first.
RECURSIVE TextLess(_, _)
TextLess(a, b) ==
    IF b = <<>> THEN FALSE
    ELSE IF a = <<>> THEN TRUE
    ELSE IF Head(a) # Head(b) THEN Head(a) < Head(b)
    ELSE TextLess(Tail(a), Tail(b))

TextLE(a, b) == a = b \/ TextLess(a, b)

\* ------------------------------------------------------------------- rows
NewRow(origin, origin_id, media_intent, source, url, output_template, max_attempts, now, trace_id) ==
    [origin |-> origin, origin_id |-> origin_id, media_intent |-> media_intent,
     source |-> source, url |-> url, output_template |-> output_template,
     status |-> "queued", queued |-> now, running |-> NoTime,
     failed |-> NoTime, attempts |-> 0,
     max_attempts |-> max_attempts, created_at |-> now,
     last_error |-> NULL, trace_id |-> trace_id]

\* the trigger download_jobs_immutable_fields: TRUE when the update is aborted
TriggerBlocks(old, new) ==
    \/ old.source # new.source
    \/ old.url # new.url
    \/ old.output_template # new.output_template
    \/ old.media_intent # new.media_intent

\* UPDATE download_jobs SET ... WHERE id=? : the row is rewritten unless the
\* BEFORE UPDATE trigger aborts the statement
UpdateRow(tbl, id, new) ==
    IF TriggerBlocks(tbl[id], new) THEN tbl ELSE [tbl EXCEPT ![id] = new]

Identity(row) ==
    [source |-> row.source, url |-> row.url, output_template |-> row.output_template,
     media_intent |-> row.media_intent, trace_id |-> row.trace_id]

\* ---------------------------------------------------------------- enqueue
\* DownloadJobStore.enqueue after validation: INSERT of a queued row
enqueue(tbl, origin, origin_id, media_intent, source, url, output_template, max_attempts, now) ==
    Append(tbl, NewRow(origin, origin_id, media_intent, source, url, output_template,
                       IF max_attempts = 0 THEN _DEFAULT_MAX_ATTEMPTS ELSE max_attempts,
                       now, Len(tbl) + 1))

has_active_job(tbl, source, url) ==
    \E i \in DOMAIN tbl :
        tbl[i].source = source /\ tbl[i].url = url /\ tbl[i].status \in {"queued", "running"}

has_job_for_origin(tbl, origin, origin_id, url) ==
    \E i \in DOMAIN tbl :
        tbl[i].origin = origin /\ tbl[i].origin_id = origin_id /\ tbl[i].url = url

\* ------------------------------------------------------------- claim_next
\* mutant: the WHERE clause without the time condition
ClaimWhereAnyTime(row, source, now) ==
    /\ row.status = "queued"
    /\ row.source = source

\* WHERE status='queued' AND source=? AND (queued IS NULL OR queued <= ?)
ClaimWhere(row, source, now) ==
    /\ row.status = "queued"
    /\ row.source = source
    /\ (row.queued = NoTime \/ TextLE(row.queued, now))

\* mutant: ORDER BY queued DESC, created_at DESC
OrderBeforeDesc(tbl, i, j) ==
    \/ TextLess(tbl[j].queued, tbl[i].queued)
    \/ /\ tbl[i].queued = tbl[j].queued
       /\ \/ TextLess(tbl[j].created_at, tbl[i].created_at)
          \/ (tbl[i].created_at = tbl[j].created_at /\ j < i)

\* ORDER BY queued ASC, created_at ASC (NULL sorts first); rows equal on both
\* keys come out in rowid order (index scan order, kept by the sorter)
OrderBefore(tbl, i, j) ==
    \/ TextLess(tbl[i].queued, tbl[j].queued)
    \/ /\ tbl[i].queued = tbl[j].queued
       /\ \/ TextLess(tbl[i].created_at, tbl[j].created_at)
          \/ (tbl[i].created_at = tbl[j].created_at /\ i < j)

\* the row SELECT ... LIMIT 1 returns, 0 when there is none
ClaimSelect(tbl, source, now) ==
    LET c == {i \in DOMAIN tbl : ClaimWhere(tbl[i], source, now)}
    IN  IF c = {} THEN 0
        ELSE CHOOSE i \in c : \A j \in c \ {i} : OrderBefore(tbl, i, j)

\* UPDATE ... SET status='running', running=?, updated_at=? WHERE id=? AND status='queued'
claim_next(tbl, source, now) ==
    LET id == ClaimSelect(tbl, source, now)
    IN  IF id = 0 THEN tbl
        ELSE UpdateRow(tbl, id, [tbl[id] EXCEPT !.status = "running", !.running = now])

list_ready_sources(tbl, now) ==
    {tbl[i].source : i \in {k \in DOMAIN tbl :
        tbl[k].status = "queued" /\ (tbl[k].queued = NoTime \/ TextLE(tbl[k].queued, now))}}

\* mutant: jobs scheduled for a later instant are not looked for
next_ready_time_never(tbl, now) ==
    FALSE

\* TRUE when next_ready_time returns a timestamp
next_ready_time(tbl, now) ==
    \E i \in DOMAIN tbl :
        tbl[i].status = "queued" /\ tbl[i].queued # NoTime /\ TextLess(now, tbl[i].queued)

\* ------------------------------------------------------------------ mark_*
\* mutant: UPDATE ... WHERE id=? without AND status='running'
RowCountAnyStatus(tbl, id) ==
    IF id \in DOMAIN tbl THEN 1 ELSE 0

\* cursor.rowcount of an UPDATE ... WHERE id=? AND status='running'
RowCount(tbl, id) ==
    IF id \in DOMAIN tbl /\ tbl[id].status = "running" THEN 1 ELSE 0

mark_completed(tbl, id, now) ==
    IF RowCount(tbl, id) # 1 THEN tbl
    ELSE UpdateRow(tbl, id, [tbl[id] EXCEPT !.status = "completed"])

mark_canceled(tbl, id, reason, now) ==
    IF RowCount(tbl, id) # 1 THEN tbl
    ELSE UpdateRow(tbl, id, [tbl[id] EXCEPT !.status = "canceled", !.last_error = reason])

\* mutant: a requeue gives the job a new trace_id
mark_failed_new_trace(tbl, id, error_message, retry_at, attempts, now) ==
    IF ~(id \in DOMAIN tbl /\ tbl[id].status = "running") THEN tbl
    ELSE UpdateRow(tbl, id,
            [tbl[id] EXCEPT !.status = IF retry_at # NoTime THEN "queued" ELSE "failed",
                            !.failed = IF retry_at # NoTime THEN @ ELSE now,
                            !.queued = retry_at,
                            !.attempts = attempts,
                            !.last_error = error_message,
                            !.trace_id = IF retry_at # NoTime THEN 0 ELSE @])

\* retry_at = NoTime stands for None; attempts is the value the caller resolved
\* (attempts if attempts is not None else job.attempts + 1)
mark_failed(tbl, id, error_message, retry_at, attempts, now) ==
    LET status == IF retry_at # NoTime THEN "queued" ELSE "failed"
    IN  IF RowCount(tbl, id) # 1 THEN tbl
        ELSE UpdateRow(tbl, id,
                [tbl[id] EXCEPT !.status = status,
                                !.failed = IF @ # NoTime THEN @
                                           ELSE IF status = "failed" THEN now ELSE NoTime,
                                !.queued = IF status = "queued" THEN retry_at ELSE NoTime,
                                !.attempts = attempts,
                                !.last_error = error_message])

\* --------------------------------------------------------- the call record
\* what the last call was and what it returned; n is the number of rows
\* before the call
Call(op, id, ret) ==
    [op |-> op, id |-> id, ret |-> ret, n |-> Len(jobs), source |-> NULL, url |-> NULL,
     origin_id |-> NULL, err |-> NULL, att |-> 0, max |-> 0, stop |-> FALSE,
     subscribe |-> FALSE]

NoCall == [op |-> "none", id |-> 0, ret |-> FALSE, n |-> 0, source |-> NULL, url |-> NULL,
           origin_id |-> NULL, err |-> NULL, att |-> 0, max |-> 0, stop |-> FALSE,
     subscribe |-> FALSE]

\* ------------------------------------------------- run_once: initial state
\* invocations of run_once that may overlap (threads or processes)
Runners == {1, 2}

\* a run_once invocation that has not been entered or has returned
IdleRun == [pc |-> "idle", playlists |-> <<>>, i |-> 0]

\* what one iteration of the playlist loop observed and did; "none" before
\* any iteration
\* first: the iteration was a first subscribe run; ok: the flag a call was
\* given (success of after_copy, downloaded of mark_video_seen)
NoObs == [kind |-> "none", run |-> 0, playlist_id |-> NULL, mode |-> NULL, videos |-> <<>>,
          started |-> <<>>, first |-> FALSE, ok |-> FALSE]

\* ------------------------------------------------ run guard: initial state
\* who asks for a run: POST /api/run twice over, and the scheduler
Callers == {"api1", "api2", "scheduled"}

NoAnswer == [kind |-> "none", caller |-> NULL, started |-> FALSE, active |-> 0,
             at |-> 0, scheduled |-> NULL, runs |-> 0]

\* _default_schedule_config
_default_schedule_config ==
    [enabled |-> FALSE, interval_hours |-> 6, run_on_startup |-> FALSE]

\* scheduler.get_job(SCHEDULE_JOB_ID) when there is no job
NoJob == <<>>

\* ------------------------------------------- search database: initial state
NoPass == [pc |-> "idle", request |-> 0, todo |-> <<>>, item |-> 0, chosen |-> <<>>]
NoResolved == [kind |-> "none", request |-> 0, results |-> <<>>, jobs_before |-> 0]

\* ------------------------------------------------ pure functions: no call yet
NoCallYet == [kind |-> "none"]

\* ------------------------------------------------- downtime wait: not called
NoWait == [pc |-> "idle", enabled |-> FALSE, start |-> 0, end |-> 0, called_at |-> 0,
           next_allowed |-> <<>>, slept_at |-> 0, wake_at |-> 0, returned_at |-> 0]

NoStop == [set |-> FALSE, at |-> 0]

NoDelivery == [registered |-> FALSE, present |-> FALSE, file |-> FALSE, expires_at |-> 0,
               event |-> FALSE, served |-> FALSE, delivered |-> FALSE]

NoClaim == [pc |-> "idle", claimed |-> FALSE, claimed_at |-> 0]

Init ==
    /\ running = FALSE
    /\ state = "idle"
    /\ run_lock = NULL
    /\ callers = [c \in Callers |-> "idle"]
    /\ run_tasks = {}
    /\ run_id = 0
    /\ answer = NoAnswer
    /\ started = FALSE
    /\ schedule_config = _default_schedule_config
    /\ scheduler_job = NoJob
    /\ schedule_next_run = NoTime
    /\ schedule_last_run = NoTime
    /\ schedule_state = [last_run |-> NoTime, next_run |-> NoTime]
    /\ search_requests = <<>>
    /\ search_items = <<>>
    /\ resolved = NoResolved
    /\ pure_call = NoCallYet
    /\ wall = 0
    /\ waiter = NoWait
    /\ stop_flag = NoStop
    /\ delivery = NoDelivery
    /\ watcher = "unstarted"
    /\ consumers = [c \in {"c1", "c2"} |-> NoClaim]
    /\ progress_current = 0
    /\ recorders = [s \in Sources |-> [pc |-> "idle", current |-> 0]]
    /\ outcomes = 0
    /\ pass = NoPass
    /\ canceled = {}
    /\ downloads = {}
    /\ playlist_videos = {}
    /\ pending_copies = {}
    /\ lock_file = FALSE
    /\ runs = [r \in Runners |-> IdleRun]
    /\ obs = NoObs
    /\ jobs = <<>>
    /\ clock = 0
    /\ last = NoCall
    /\ inserted = <<>>
    /\ semaphores = [s \in Sources |-> 1]
    /\ workers = [s \in Sources |-> [pc |-> "none", job |-> 0, attempts |-> 0, max_attempts |-> 0]]
    /\ supervisor = "idle"
    /\ stop_event = FALSE
    /\ threads = [s \in Sources |-> 0]

\* ------------------------------------------------------------------ clock
Tick ==
    /\ clock < MaxClock
    /\ clock' = clock + 1
    /\ last' = NoCall
    /\ UNCHANGED <<jobs, inserted, engineVars, outsideQueue>>

\* ---------------------------------------------------- direct store calls
\* store.enqueue(origin=..., ...) as the tests call it
Enqueue(origin, origin_id, source, url, max_attempts) ==
    /\ Len(jobs) < MaxJobs
    /\ IF origin \notin _ALLOWED_ORIGINS
       THEN UNCHANGED <<jobs, inserted>>
       ELSE /\ jobs' = enqueue(jobs, origin, origin_id,
                               IF origin = "playlist" THEN "playlist" ELSE "track",
                               source, url, NULL, max_attempts, _utc_now)
            /\ inserted' = Append(inserted, Identity(jobs'[Len(jobs')]))
    /\ last' = NoCall
    /\ UNCHANGED <<clock, engineVars, outsideQueue>>

ClaimNext(source) ==
    /\ jobs' = claim_next(jobs, source, _utc_now)
    /\ last' = NoCall
    /\ UNCHANGED <<clock, inserted, engineVars, outsideQueue>>

\* rec: whether the call and its return value are recorded in last
MarkCompleted(id, rec) ==
    /\ jobs' = mark_completed(jobs, id, _utc_now)
    /\ last' = IF rec THEN Call("mark_completed", id, RowCount(jobs, id) = 1) ELSE NoCall
    /\ UNCHANGED <<clock, inserted, engineVars, outsideQueue>>

MarkCanceled(id, rec) ==
    /\ jobs' = mark_canceled(jobs, id, "canceled", _utc_now)
    /\ last' = IF rec THEN Call("mark_canceled", id, RowCount(jobs, id) = 1) ELSE NoCall
    /\ UNCHANGED <<clock, inserted, engineVars, outsideQueue>>

\* attempts = -1 stands for attempts=None: job.attempts + 1 of the job object
\* passed, here the stored row as get_job returns it
MarkFailed(id, retry_at, attempts, rec) ==
    /\ id \in DOMAIN jobs => jobs[id].attempts < MaxAttemptsCount
    /\ jobs' = mark_failed(jobs, id, "timeout", retry_at,
                           IF attempts # -1 THEN attempts
                           ELSE IF id \in DOMAIN jobs THEN jobs[id].attempts + 1 ELSE 1,
                           _utc_now)
    /\ last' = IF rec THEN Call("mark_failed", id, RowCount(jobs, id) = 1) ELSE NoCall
    /\ UNCHANGED <<clock, inserted, engineVars, outsideQueue>>

\* ------------------------------------------------ search resolver enqueue
\* mutant: the resolver enqueues without asking has_job_for_origin
_enqueue_download_job_unchecked(tbl, request_id, source, url, max_attempts, now) ==
    enqueue(tbl, "search", request_id, "track", source, url, "tpl", max_attempts, now)

\* SearchResolutionService._enqueue_download_job: request["id"], the chosen
\* candidate's source and url, config.get("job_max_attempts")
_enqueue_download_job(tbl, request_id, source, url, max_attempts, now) ==
    IF has_job_for_origin(tbl, "search", request_id, url) THEN tbl
    ELSE enqueue(tbl, "search", request_id, "track", source, url, "tpl", max_attempts, now)

EnqueueDownloadJob(request_id, source, url, max_attempts, rec) ==
    /\ Len(jobs) < MaxJobs
    /\ jobs' = _enqueue_download_job(jobs, request_id, source, url, max_attempts, _utc_now)
    /\ inserted' = IF Len(jobs') > Len(jobs) THEN Append(inserted, Identity(jobs'[Len(jobs')]))
                   ELSE inserted
    /\ last' = IF rec
               THEN [Call("_enqueue_download_job", IF Len(jobs') > Len(jobs) THEN Len(jobs') ELSE 0, TRUE)
                        EXCEPT !.source = source, !.url = url, !.origin_id = request_id]
               ELSE NoCall
    /\ UNCHANGED <<clock, engineVars, outsideQueue>>

\* retry_at of mark_failed: None, or the instant the engine computes
RetryAtArgs == {NoTime, isoformat(clock + retry_delay_seconds)}

\* the store as the queue tests drive it: jobs of source "youtube"
StoreNext ==
    \/ Tick
    \/ Enqueue("playlist", "PL123", "youtube", "u1", 0)
    \/ Enqueue("bogus", "PL123", "youtube", "u1", 0)
    \/ ClaimNext("youtube")
    \/ \E id \in 1..MaxJobs : MarkCompleted(id, FALSE)
    \/ \E id \in 1..MaxJobs : MarkCanceled(id, FALSE)
    \/ \E id \in 1..MaxJobs, r \in RetryAtArgs : MarkFailed(id, r, -1, FALSE)

SpecStore == Init /\ [][StoreNext]_vars

\* retry_at as test_requeue_updates_attempts passes it: the current instant
RetryNowArgs == {NoTime, _utc_now}

\* the mark_* calls on jobs in any status within one instant, each call and
\* its return value recorded
MarkNext ==
    \/ Enqueue("playlist", "PL123", "youtube", "u1", 0)
    \/ ClaimNext("youtube")
    \/ \E id \in 1..MaxJobs : MarkCompleted(id, TRUE)
    \/ \E id \in 1..MaxJobs : MarkCanceled(id, TRUE)
    \/ \E id \in 1..MaxJobs, r \in RetryNowArgs : MarkFailed(id, r, -1, TRUE)

SpecMark == Init /\ [][MarkNext]_vars

\* the resolver next to a caller of store.enqueue for the same request, as
\* in test_enqueue_idempotency
SearchNext ==
    \/ Tick
    \/ \E r \in Requests, s \in Sources, u \in Urls : Enqueue("search", r, s, u, 0)
    \/ \E r \in Requests, s \in Sources, u \in Urls, m \in MaxAttemptsArgs :
          EnqueueDownloadJob(r, s, u, m, TRUE)

SpecSearch == Init /\ [][SearchNext]_vars

\* the resolver as the only enqueuer
ResolverNext ==
    \/ Tick
    \/ \E r \in Requests, s \in Sources, u \in Urls, m \in MaxAttemptsArgs :
          EnqueueDownloadJob(r, s, u, m, TRUE)

SpecResolver == Init /\ [][ResolverNext]_vars

\* ---------------------------------------------------------- retry classifier
non_retryable ==
    {"drm", "http error 403", "http error 404", "403 forbidden", "404 not found",
     "private video", "video unavailable", "not available"}

retryable ==
    {"timeout", "timed out", "temporary failure", "connection reset", "connection aborted",
     "connection refused", "network is unreachable", "remote end closed connection",
     "http error 429", "http error 500", "http error 502", "http error 503",
     "http error 504", "extractor error", "ssl", "tls", "eof"}

\* str(exc) of the exceptions an adapter raises here
ErrorMessages ==
    {"Connection timed out", "HTTP Error 404: Not Found", "yt-dlp download failed",
     "HTTP Error 503: Video unavailable"}

\* the tokens t of the two lists with  t in error_message.lower()
TokensIn(error_message) ==
    CASE error_message = "Connection timed out" -> {"timed out"}
      [] error_message = "HTTP Error 404: Not Found" -> {"http error 404"}
      [] error_message = "HTTP Error 503: Video unavailable" -> {"http error 503", "video unavailable"}
      [] OTHER -> {}

_is_retryable_error(error_message) ==
    IF error_message = NULL THEN FALSE
    ELSE IF TokensIn(error_message) \cap non_retryable # {} THEN FALSE
    ELSE TokensIn(error_message) \cap retryable # {}

\* ------------------------------------------------------------ worker engine
\* sources with an entry in DownloadWorkerEngine.adapters
Adapters == {"youtube"}

\* mutant: the retry is scheduled for now, without the delay
_handle_job_error_no_delay(tbl, job, error_message, stopped, t) ==
    IF stopped THEN mark_canceled(tbl, job.job, "canceled", isoformat(t))
    ELSE IF _is_retryable_error(error_message) /\ job.attempts + 1 < job.max_attempts
         THEN mark_failed(tbl, job.job, error_message, isoformat(t), job.attempts + 1,
                          isoformat(t))
         ELSE tbl

\* _handle_job_error(job, exc): job is the worker's copy of the claimed row
\* (id, attempts, max_attempts), stopped is stop_event.is_set(), t is utcnow.
\* The terminal mark_failed of lines 676-678 follows the return of the
\* retry branch inside that branch and is never executed.
_handle_job_error(tbl, job, error_message, stopped, t) ==
    IF stopped THEN mark_canceled(tbl, job.job, "canceled", isoformat(t))
    ELSE IF _is_retryable_error(error_message) /\ job.attempts + 1 < job.max_attempts
         THEN mark_failed(tbl, job.job, error_message, isoformat(t + retry_delay_seconds),
                          job.attempts + 1, isoformat(t))
         ELSE tbl

Idle == [pc |-> "none", job |-> 0, attempts |-> 0, max_attempts |-> 0]

\* run_until_idle is entered
RunUntilIdle ==
    /\ supervisor = "idle"
    /\ supervisor' = "run"
    /\ last' = NoCall
    /\ UNCHANGED <<jobs, clock, inserted, semaphores, workers, threads, stop_event, outsideQueue>>

\* mutant: a worker is started whether or not the permit was obtained
acquire_unchecked(sems, s) ==
    TRUE

\* semaphore.acquire(blocking=False) returns True: the permit is free
acquire(sems, s) ==
    sems[s] = 1

\* _start_worker(source) for every source of the sample: a worker is
\* started where the source's semaphore can be acquired
StartWorkers(sample) ==
    /\ semaphores' = [s \in Sources |-> IF s \in sample THEN 0 ELSE semaphores[s]]
    /\ workers' = [s \in Sources |->
                      IF s \in sample /\ acquire(semaphores, s)
                      THEN [Idle EXCEPT !.pc = "claim"] ELSE workers[s]]
    /\ threads' = [s \in Sources |->
                      IF s \in sample /\ acquire(semaphores, s)
                      THEN threads[s] + 1 ELSE threads[s]]

_any_active_workers == \E s \in Sources : workers[s].pc # "none"

\* one iteration of the loop of run_until_idle; last records whether the
\* loop was left (ret) and whether stop was set
SupervisorIterate ==
    /\ supervisor = "run"
    /\ IF stop_event
       THEN /\ supervisor' = "join"
            /\ UNCHANGED <<semaphores, workers, threads>>
       ELSE LET sample == list_ready_sources(jobs, _utc_now)
            IN  /\ StartWorkers(sample)
                /\ supervisor' = IF /\ sample = {}
                                    /\ ~_any_active_workers
                                    /\ ~next_ready_time(jobs, _utc_now)
                                 THEN "join" ELSE "run"
    /\ last' = [Call("run_until_idle", 0, supervisor' = "join") EXCEPT !.stop = stop_event]
    /\ UNCHANGED <<jobs, clock, inserted, stop_event, outsideQueue>>

\* _join_workers returns once every worker thread has ended
JoinWorkers ==
    /\ supervisor = "join"
    /\ ~_any_active_workers
    /\ supervisor' = "idle"
    /\ last' = NoCall
    /\ UNCHANGED <<jobs, clock, inserted, semaphores, workers, threads, stop_event, outsideQueue>>

SetStop ==
    /\ ~stop_event
    /\ stop_event' = TRUE
    /\ last' = NoCall
    /\ UNCHANGED <<jobs, clock, inserted, semaphores, workers, threads, supervisor, outsideQueue>>

\* _worker_loop: the stop check and claim_next(source); the permit is
\* released when the loop is left
WorkerClaim(s) ==
    /\ workers[s].pc = "claim"
    /\ LET id == IF stop_event THEN 0 ELSE ClaimSelect(jobs, s, _utc_now)
       IN  /\ jobs' = IF stop_event THEN jobs ELSE claim_next(jobs, s, _utc_now)
           /\ IF id = 0
              THEN /\ workers' = [workers EXCEPT ![s] = Idle]
                   /\ semaphores' = [semaphores EXCEPT ![s] = 1]
                   /\ threads' = [threads EXCEPT ![s] = @ - 1]
              ELSE /\ workers' = [workers EXCEPT ![s] =
                                    [pc |-> "execute", job |-> id, attempts |-> jobs[id].attempts,
                                     max_attempts |-> jobs[id].max_attempts]]
                   /\ UNCHANGED <<semaphores, threads>>
           /\ last' = NoCall
    /\ UNCHANGED <<clock, inserted, supervisor, stop_event, outsideQueue>>

\* an exception leaves _worker_loop (claim_next or a store call of
\* _execute_job raises): the finally clause releases the permit and the
\* thread ends
WorkerRaises(s) ==
    /\ workers[s].pc \in {"claim", "execute"}
    /\ workers' = [workers EXCEPT ![s] = Idle]
    /\ semaphores' = [semaphores EXCEPT ![s] = 1]
    /\ threads' = [threads EXCEPT ![s] = @ - 1]
    /\ last' = NoCall
    /\ UNCHANGED <<jobs, clock, inserted, supervisor, stop_event, outsideQueue>>

\* --------------------------------------------------------- history store
playlist_has_seen(pv, playlist_id) ==
    \E row \in pv : row.playlist_id = playlist_id

is_video_seen(pv, playlist_id, video_id) ==
    \E row \in pv : row.playlist_id = playlist_id /\ row.video_id = video_id

\* mutant: INSERT OR REPLACE, the row is rewritten with the flag passed
mark_video_seen_replace(pv, playlist_id, video_id, downloaded) ==
    {row \in pv : ~(row.playlist_id = playlist_id /\ row.video_id = video_id)}
        \cup {[playlist_id |-> playlist_id, video_id |-> video_id,
                downloaded |-> IF downloaded THEN 1 ELSE 0]}

\* INSERT OR IGNORE on the primary key (playlist_id, video_id), then
\* UPDATE ... SET downloaded=1 when downloaded is true
mark_video_seen(pv, playlist_id, video_id, downloaded) ==
    LET ins == IF is_video_seen(pv, playlist_id, video_id) THEN pv
               ELSE pv \cup {[playlist_id |-> playlist_id, video_id |-> video_id,
                              downloaded |-> IF downloaded THEN 1 ELSE 0]}
    IN  IF downloaded
        THEN {IF row.playlist_id = playlist_id /\ row.video_id = video_id
              THEN [row EXCEPT !.downloaded = 1] ELSE row : row \in ins}
        ELSE ins

mark_video_downloaded(pv, playlist_id, video_id) ==
    mark_video_seen(pv, playlist_id, video_id, TRUE)

\* what last records of a worker step on a job: the step and the job when
\* the stop event was set during it, nothing otherwise
StopSeen(op, id) ==
    IF stop_event THEN [Call(op, id, TRUE) EXCEPT !.stop = TRUE] ELSE NoCall

\* _execute_job up to the call of the adapter
ExecuteJob(s) ==
    /\ workers[s].pc = "execute"
    /\ IF stop_event
       THEN /\ jobs' = mark_canceled(jobs, workers[s].job, "canceled before start", _utc_now)
            /\ workers' = [workers EXCEPT ![s] = [Idle EXCEPT !.pc = "claim"]]
       ELSE IF s \notin Adapters
       THEN /\ jobs' = mark_failed(jobs, workers[s].job, "no adapter registered", NoTime,
                                   workers[s].attempts + 1, _utc_now)
            /\ workers' = [workers EXCEPT ![s] = [Idle EXCEPT !.pc = "claim"]]
       ELSE /\ workers' = [workers EXCEPT ![s].pc = "adapter"]
            /\ UNCHANGED jobs
    /\ last' = StopSeen("_execute_job", workers[s].job)
    /\ UNCHANGED <<clock, inserted, semaphores, threads, supervisor, stop_event, outsideQueue>>

\* context.get("video_id") or extract_video_id(job.url): the url stands for
\* the id of its video
VideoOf(job) == job.url

\* if job.origin == "playlist": the adapter writes to the history database
records_download(job) ==
    job.origin = "playlist"

\* the INSERT INTO downloads of the adapter: video_id is the primary key, so a
\* second row for a video raises IntegrityError, which the adapter logs
adapter_downloads(dl, job) ==
    IF records_download(job) /\ VideoOf(job) \notin dl THEN dl \cup {VideoOf(job)} ELSE dl

\* mark_video_downloaded follows the INSERT inside the same try
adapter_playlist_videos(pv, dl, job, subscribe_mode) ==
    IF records_download(job) /\ VideoOf(job) \notin dl /\ subscribe_mode
    THEN mark_video_downloaded(pv, job.origin_id, VideoOf(job))
    ELSE pv

\* YouTubeAdapter.execute after the download, to its end: the history rows,
\* then mark_completed.  subscribe_mode is context["subscribe_mode"] of the
\* job; last records the job and the flag.
AdapterCompletes(s, subscribe_mode) ==
    /\ workers[s].pc = "adapter"
    /\ subscribe_mode => records_download(jobs[workers[s].job])
    /\ downloads' = adapter_downloads(downloads, jobs[workers[s].job])
    /\ playlist_videos' = adapter_playlist_videos(playlist_videos, downloads,
                                                  jobs[workers[s].job], subscribe_mode)
    /\ jobs' = mark_completed(jobs, workers[s].job, _utc_now)
    /\ workers' = [workers EXCEPT ![s] = [Idle EXCEPT !.pc = "claim"]]
    /\ last' = [Call("YouTubeAdapter.execute", workers[s].job, TRUE)
                    EXCEPT !.stop = stop_event, !.subscribe = subscribe_mode]
    /\ UNCHANGED <<clock, inserted, semaphores, threads, supervisor, stop_event, outsideAdapter>>

\* YouTubeAdapter.execute finds the stop event set before the download
AdapterCanceled(s) ==
    /\ workers[s].pc = "adapter"
    /\ stop_event
    /\ jobs' = mark_canceled(jobs, workers[s].job, "canceled before download", _utc_now)
    /\ workers' = [workers EXCEPT ![s] = [Idle EXCEPT !.pc = "claim"]]
    /\ last' = StopSeen("YouTubeAdapter.execute", workers[s].job)
    /\ UNCHANGED <<clock, inserted, semaphores, threads, supervisor, stop_event, outsideQueue>>

\* adapter.execute raises: _execute_job hands the exception to _handle_job_error
AdapterRaises(s, error_message) ==
    /\ workers[s].pc = "adapter"
    /\ jobs' = _handle_job_error(jobs, workers[s], error_message, stop_event, clock)
    /\ workers' = [workers EXCEPT ![s] = [Idle EXCEPT !.pc = "claim"]]
    /\ last' = [Call("_handle_job_error", workers[s].job, TRUE)
                    EXCEPT !.err = error_message, !.att = workers[s].attempts,
                           !.max = workers[s].max_attempts, !.stop = stop_event]
    /\ UNCHANGED <<clock, inserted, semaphores, threads, supervisor, stop_event, outsideQueue>>

\* def build_output_filename(meta, video_id, ext, config, music_mode), and
\* the keywords of the adapter's call to it
build_output_filename_params == {"meta", "video_id", "ext", "config", "music_mode"}
adapter_call_keywords == {"template_override"}

\* Python raises TypeError for a keyword the function does not take
unexpected_keyword(keywords, params) ==
    keywords \ params # {}

\* str(exc) of that TypeError; it holds no token of either list
template_override_error ==
    "build_output_filename() got an unexpected keyword argument 'template_override'"

\* YouTubeAdapter.execute after download_with_ytdlp has returned a file: the
\* call of build_output_filename raises, _execute_job hands the TypeError to
\* _handle_job_error, and os.replace and mark_completed are not reached
AdapterFinalizes(s, subscribe_mode) ==
    IF unexpected_keyword(adapter_call_keywords, build_output_filename_params)
    THEN AdapterRaises(s, template_override_error)
    ELSE AdapterCompletes(s, subscribe_mode)

EngineNext ==
    \/ Tick
    \/ \E u \in Urls, m \in MaxAttemptsArgs : EnqueueDownloadJob("r1", "youtube", u, m, FALSE)
    \/ EnqueueDownloadJob("r1", "youtube_music", "u1", 0, FALSE)
    \/ RunUntilIdle
    \/ SupervisorIterate
    \/ JoinWorkers
    \/ SetStop
    \/ \E s \in Sources : WorkerClaim(s)
    \/ \E s \in Sources : WorkerRaises(s)
    \/ \E s \in Sources : ExecuteJob(s)
    \/ \E s \in Sources, subscribe_mode \in BOOLEAN : AdapterFinalizes(s, subscribe_mode)
    \/ \E s \in Sources : AdapterCanceled(s)
    \/ \E s \in Sources, e \in ErrorMessages : AdapterRaises(s, e)

SpecEngine == Init /\ [][EngineNext]_vars

\* ================================================================ run_once
\* ---------------------------------------------------- playlist listings
Videos == {"a", "b", "c"}
MaxListing == 2

\* the video ids a playlist lists, in the order the API returns them
Listings == UNION {[1..n -> Videos] : n \in 0..MaxListing}

\* get_playlist_videos: one entry per item, position counted from 0
get_playlist_videos(listing) ==
    [k \in 1..Len(listing) |-> [videoId |-> listing[k], position |-> k - 1]]

\* entry.get("position") or entry.get("playlist_index") or 0
_playlist_sort_key(entry) == IF entry.position # 0 THEN entry.position ELSE 0

\* sorted(videos, key=_playlist_sort_key, reverse=True): stable, so an entry
\* goes behind every entry whose key is not smaller
RECURSIVE InsertDesc(_, _)
InsertDesc(sorted, entry) ==
    IF sorted = <<>> THEN <<entry>>
    ELSE IF _playlist_sort_key(Head(sorted)) >= _playlist_sort_key(entry)
         THEN <<Head(sorted)>> \o InsertDesc(Tail(sorted), entry)
         ELSE <<entry>> \o sorted

RECURSIVE SortedDesc(_)
SortedDesc(videos) ==
    IF videos = <<>> THEN <<>>
    ELSE InsertDesc(SortedDesc(SubSeq(videos, 1, Len(videos) - 1)), videos[Len(videos)])

\* mutant: only the first entry is marked
MarkFirstSeen(pv, playlist_id, videos) ==
    IF videos = <<>> THEN pv
    ELSE mark_video_seen(pv, playlist_id, Head(videos).videoId, FALSE)

\* the loop of the first subscribe run: mark_video_seen(..., downloaded=False)
\* for every entry
RECURSIVE MarkAllSeen(_, _, _)
MarkAllSeen(pv, playlist_id, videos) ==
    IF videos = <<>> THEN pv
    ELSE MarkAllSeen(mark_video_seen(pv, playlist_id, Head(videos).videoId, FALSE),
                     playlist_id, Tail(videos))

VideoIds(videos) == [k \in 1..Len(videos) |-> videos[k].videoId]

\* ------------------------------------------------- the playlist loop body
\* One iteration of `for pl in playlists` (core.py 2693-2943) with dry_run
\* and preview off, an account-less playlist and no stop event.  listing is
\* what discover_playlist_videos returns, local_file whether
\* download_with_ytdlp produced a file.  The loop `for entry in videos`
\* (2807-2819) only sets status fields; the statements from 2821 on are
\* outside it and work on the vid the loop left behind, the one of the last
\* entry, and their break and continue act on the playlist loop.
\* flow: "continue" goes on with the next playlist, "break" leaves the loop.
playlist_body(pv, dl, pl, listing, local_file) ==
    LET subscribe_mode == pl.mode = "subscribe"
        discovered == get_playlist_videos(listing)
        videos == IF subscribe_mode THEN SortedDesc(discovered) ELSE discovered
        vid == videos[Len(videos)].videoId
        base == [videos |-> videos, pv |-> pv, started |-> <<>>, copies |-> {},
                 flow |-> "continue", first |-> FALSE]
    IN  IF videos = <<>> THEN base
        ELSE IF subscribe_mode /\ ~playlist_has_seen(pv, pl.playlist_id)
        THEN [base EXCEPT !.pv = MarkAllSeen(pv, pl.playlist_id, videos), !.first = TRUE]
        ELSE IF subscribe_mode /\ is_video_seen(pv, pl.playlist_id, vid)
        THEN [base EXCEPT !.flow = "break"]
        ELSE IF ~subscribe_mode /\ vid \in dl
        THEN base
        ELSE [base EXCEPT !.started = <<vid>>,
                          !.copies = IF local_file
                                     THEN {[video_id |-> vid, playlist |-> pl.playlist_id,
                                            subscribe |-> subscribe_mode]}
                                     ELSE {}]

\* after_copy(success, dst) of one copy (core.py 2900-2936): the INSERT into
\* downloads raises IntegrityError on a video_id already there, the
\* connection rolls back and mark_video_downloaded is not reached
after_copy_downloads(dl, t, success) ==
    IF success /\ t.video_id \notin dl THEN dl \cup {t.video_id} ELSE dl

after_copy_playlist_videos(pv, dl, t, success) ==
    IF success /\ t.video_id \notin dl /\ t.subscribe
    THEN mark_video_downloaded(pv, t.playlist, t.video_id)
    ELSE pv

\* ------------------------------------------------------- run_once, stepwise
\* the configured playlists: one in subscribe mode, one in full mode
PlaylistSpecs == {[playlist_id |-> "PL1", mode |-> "subscribe"],
                  [playlist_id |-> "PL2", mode |-> "full"]}
MaxPlaylists == 2
\* config["playlists"]: playlist specs with distinct ids
Configs == {c \in UNION {[1..n -> PlaylistSpecs] : n \in 1..MaxPlaylists} :
               \A j, k \in 1..Len(c) : j # k => c[j].playlist_id # c[k].playlist_id}

\* run_once up to the lock file check (2655-2661)
RunOnceEnter(r, config) ==
    /\ runs[r].pc = "idle"
    /\ IF lock_file
       THEN /\ obs' = [NoObs EXCEPT !.kind = "declined", !.run = r]
            /\ UNCHANGED runs
       ELSE /\ runs' = [runs EXCEPT ![r] = [pc |-> "open", playlists |-> config, i |-> 0]]
            /\ obs' = [NoObs EXCEPT !.kind = "entered", !.run = r]
    /\ UNCHANGED <<downloads, playlist_videos, pending_copies, lock_file, outsideCore>>

\* open(lock_file, "w") and the write of the pid (2663-2667)
RunOnceWriteLock(r) ==
    /\ runs[r].pc = "open"
    /\ lock_file' = TRUE
    /\ runs' = [runs EXCEPT ![r].pc = "init"]
    /\ obs' = [NoObs EXCEPT !.kind = "locked", !.run = r]
    /\ UNCHANGED <<downloads, playlist_videos, pending_copies, outsideCore>>

\* init_db and the reads of the config before the try statement (2669-2683);
\* raises: init_db raised (sqlite3.connect or CREATE TABLE failed), which
\* leaves run_once before the try statement is entered
RunOnceInit(r, raises) ==
    /\ runs[r].pc = "init"
    /\ runs' = [runs EXCEPT ![r] = IF raises THEN IdleRun ELSE [@ EXCEPT !.pc = "loop", !.i = 1]]
    /\ obs' = [NoObs EXCEPT !.kind = IF raises THEN "raised" ELSE "init", !.run = r]
    /\ UNCHANGED <<downloads, playlist_videos, pending_copies, lock_file, outsideCore>>

\* one iteration of the playlist loop
RunOncePlaylist(r, listing, local_file) ==
    /\ runs[r].pc = "loop"
    /\ runs[r].i <= Len(runs[r].playlists)
    /\ LET pl == runs[r].playlists[runs[r].i]
           res == playlist_body(playlist_videos, downloads, pl, listing, local_file)
       IN  /\ playlist_videos' = res.pv
           /\ pending_copies' = pending_copies \cup {[t EXCEPT !.run = r] :
                                    t \in {[video_id |-> c.video_id, playlist |-> c.playlist,
                                            subscribe |-> c.subscribe, run |-> 0] : c \in res.copies}}
           /\ runs' = [runs EXCEPT ![r] = IF res.flow = "break" THEN [@ EXCEPT !.pc = "join"]
                                          ELSE [@ EXCEPT !.i = @ + 1]]
           /\ obs' = [kind |-> "playlist", run |-> r, playlist_id |-> pl.playlist_id,
                      mode |-> pl.mode, videos |-> VideoIds(res.videos),
                      started |-> res.started, first |-> res.first, ok |-> FALSE]
    /\ UNCHANGED <<downloads, lock_file, outsideCore>>

\* the playlist loop is exhausted
RunOnceLoopEnd(r) ==
    /\ runs[r].pc = "loop"
    /\ runs[r].i > Len(runs[r].playlists)
    /\ runs' = [runs EXCEPT ![r].pc = "join"]
    /\ obs' = NoObs
    /\ UNCHANGED <<downloads, playlist_videos, pending_copies, lock_file, outsideCore>>

\* the thread async_copy started runs after_copy
AfterCopy(t, success) ==
    /\ t \in pending_copies
    /\ downloads' = after_copy_downloads(downloads, t, success)
    /\ playlist_videos' = after_copy_playlist_videos(playlist_videos, downloads, t, success)
    /\ pending_copies' = pending_copies \ {t}
    /\ obs' = [NoObs EXCEPT !.kind = "after_copy", !.run = t.run, !.playlist_id = t.playlist,
                            !.mode = IF t.subscribe THEN "subscribe" ELSE "full",
                            !.videos = <<t.video_id>>, !.ok = success]
    /\ UNCHANGED <<lock_file, runs, outsideCore>>

\* `for t in pending_copies: t.join()` (2945-2946) has returned
RunOnceJoin(r) ==
    /\ runs[r].pc = "join"
    /\ \A t \in pending_copies : t.run # r
    /\ runs' = [runs EXCEPT ![r].pc = "finally"]
    /\ obs' = NoObs
    /\ UNCHANGED <<downloads, playlist_videos, pending_copies, lock_file, outsideCore>>

\* the finally clause (2951-3031): os.remove(lock_file), FileNotFoundError
\* swallowed
RunOnceFinally(r) ==
    /\ runs[r].pc = "finally"
    /\ lock_file' = FALSE
    /\ runs' = [runs EXCEPT ![r] = IdleRun]
    /\ obs' = [NoObs EXCEPT !.kind = "ended", !.run = r]
    /\ UNCHANGED <<downloads, playlist_videos, pending_copies, outsideCore>>

\* one process running run_once again and again on its configuration
DiscoveryNext ==
    \/ \E c \in Configs : RunOnceEnter(1, c)
    \/ RunOnceWriteLock(1)
    \/ RunOnceInit(1, FALSE)
    \/ \E l \in Listings, f \in BOOLEAN : RunOncePlaylist(1, l, f)
    \/ RunOnceLoopEnd(1)
    \/ \E t \in pending_copies, ok \in BOOLEAN : AfterCopy(t, ok)
    \/ RunOnceJoin(1)
    \/ RunOnceFinally(1)

SpecDiscovery == Init /\ [][DiscoveryNext]_vars

\* the history store's mark operations called directly, in any order
MarkVideoSeen(playlist_id, video_id, downloaded) ==
    /\ playlist_videos' = mark_video_seen(playlist_videos, playlist_id, video_id, downloaded)
    /\ obs' = [NoObs EXCEPT !.kind = "mark_video_seen", !.playlist_id = playlist_id,
                            !.videos = <<video_id>>, !.ok = downloaded]
    /\ UNCHANGED <<downloads, pending_copies, lock_file, runs, outsideCore>>

MarkVideoDownloaded(playlist_id, video_id) ==
    /\ playlist_videos' = mark_video_downloaded(playlist_videos, playlist_id, video_id)
    /\ obs' = [NoObs EXCEPT !.kind = "mark_video_downloaded", !.playlist_id = playlist_id,
                            !.videos = <<video_id>>, !.ok = TRUE]
    /\ UNCHANGED <<downloads, pending_copies, lock_file, runs, outsideCore>>

PlaylistIds == {pl.playlist_id : pl \in PlaylistSpecs}

SeenNext ==
    \/ \E p \in PlaylistIds, v \in Videos, d \in BOOLEAN : MarkVideoSeen(p, v, d)
    \/ \E p \in PlaylistIds, v \in Videos : MarkVideoDownloaded(p, v)

SpecSeen == Init /\ [][SeenNext]_vars

\* run_once invocations that overlap on one library, each configured with
\* one playlist ...
LockConfigs == {c \in Configs : Len(c) = 1}
\* ... listing at most one video
LockListings == {l \in Listings : Len(l) <= 1}

LockNext ==
    \/ \E r \in Runners, c \in LockConfigs : RunOnceEnter(r, c)
    \/ \E r \in Runners : RunOnceWriteLock(r)
    \/ \E r \in Runners, raises \in BOOLEAN : RunOnceInit(r, raises)
    \/ \E r \in Runners, l \in LockListings, f \in BOOLEAN : RunOncePlaylist(r, l, f)
    \/ \E r \in Runners : RunOnceLoopEnd(r)
    \/ \E t \in pending_copies, ok \in BOOLEAN : AfterCopy(t, ok)
    \/ \E r \in Runners : RunOnceJoin(r)
    \/ \E r \in Runners : RunOnceFinally(r)

SpecLock == Init /\ [][LockNext]_vars

\* =============================================================== run guard
\* Init is the point of startup() at which app.state.running, state and
\* run_lock are set and the schedule has not been read yet (main.py 146-176).
\* Times are whole hours; an optional time is a sequence of length 0 or 1.
MaxRuns == 2

\* mutant: the guard never declines
run_declined_never(r) ==
    FALSE

\* `if app.state.running: return False` (main.py 570-571)
run_declined(r) ==
    r

RunOutcomes == {"ok", "stopped", "raised"}

\* the schedule configurations a config file or a ScheduleRequest may give
Schedules ==
    [enabled : BOOLEAN, interval_hours : {1, 2}, run_on_startup : BOOLEAN]

\* mutant: the first fire time is the moment of the reconfiguration
start_date_immediate(now, interval) ==
    now

\* start_date = datetime.now(timezone.utc) + timedelta(hours=interval)
start_date(now, interval) ==
    now + interval

\* _get_next_run_iso: the job's next_run_time, None without a job
_get_next_run_iso(job) ==
    IF job = NoJob THEN NoTime ELSE <<job[1].next_run_time>>

\* mutant: a skipped tick leaves the recorded next_run as it was
skip_keeps_next_run(job, recorded) ==
    recorded

\* _set_schedule_state(next_run=_get_next_run_iso()) of a skipped tick
skip_refreshes_next_run(job, recorded) ==
    _get_next_run_iso(job)

\* the default of _set_schedule_state's parameters, which no time equals
_UNSET == <<-1>>

\* _write_schedule_state on the schedule_state table: nothing when both
\* values are None, else each key is deleted when its value is None and
\* written otherwise
_write_schedule_state(db, last_run, next_run) ==
    IF last_run = NoTime /\ next_run = NoTime THEN db
    ELSE [last_run |-> last_run, next_run |-> next_run]

\* _set_schedule_state, the table: a parameter left unset is handed on as
\* None
_set_schedule_state(db, last_run, next_run) ==
    _write_schedule_state(db, IF last_run = _UNSET THEN NoTime ELSE last_run,
                              IF next_run = _UNSET THEN NoTime ELSE next_run)

\* _apply_schedule_config: the job is removed, and added again with its first
\* fire time one interval from now when the schedule is enabled
_apply_schedule_config(schedule, now) ==
    IF schedule.enabled
    THEN <<[interval |-> schedule.interval_hours,
            next_run_time |-> start_date(now, schedule.interval_hours)]>>
    ELSE NoJob

\* the scheduler fires its job when the clock reaches next_run_time
Due == scheduler_job # NoJob /\ scheduler_job[1].next_run_time <= clock

\* an hour passes; the scheduler thread does not sleep past a fire time, and
\* a coroutine the event loop has been handed does not wait an hour
HourPasses ==
    /\ ~Due
    /\ \A c \in Callers : callers[c] = "idle"
    /\ Tick

\* the rest of startup() (main.py 177-187): the schedule of the config file
\* is applied, and with run_on_startup the coroutine _handle_scheduled_run is
\* created as a task
Startup(schedule) ==
    /\ ~started
    /\ started' = TRUE
    /\ schedule_config' = schedule
    /\ scheduler_job' = _apply_schedule_config(schedule, clock)
    /\ schedule_next_run' = _get_next_run_iso(scheduler_job')
    /\ schedule_state' = _set_schedule_state(schedule_state, _UNSET, schedule_next_run')
    /\ callers' = IF schedule.enabled /\ schedule.run_on_startup
                  THEN [callers EXCEPT !["scheduled"] = "dispatched"]
                  ELSE callers
    /\ answer' = [NoAnswer EXCEPT !.kind = "startup", !.at = clock,
                                  !.scheduled = callers["scheduled"], !.runs = run_id,
                                  !.active = Cardinality(run_tasks)]
    /\ UNCHANGED <<running, state, run_lock, run_tasks, run_id, schedule_last_run, outsideApi>>

\* POST /api/schedule and PUT /api/config with a schedule: the configuration
\* is stored and applied
ApiUpdateSchedule(schedule) ==
    /\ started
    /\ schedule_config' = schedule
    /\ scheduler_job' = _apply_schedule_config(schedule, clock)
    /\ schedule_next_run' = _get_next_run_iso(scheduler_job')
    /\ schedule_state' = _set_schedule_state(schedule_state, _UNSET, schedule_next_run')
    /\ answer' = [NoAnswer EXCEPT !.kind = "apply", !.at = clock,
                                  !.scheduled = callers["scheduled"], !.runs = run_id,
                                  !.active = Cardinality(run_tasks)]
    /\ UNCHANGED <<running, state, run_lock, callers, run_tasks, run_id, started,
                   schedule_last_run, outsideApi>>

\* the scheduler fires the job: it sets next_run_time one interval later and
\* calls _schedule_tick, which hands _handle_scheduled_run to the event loop
ScheduleTick ==
    /\ started
    /\ Due
    /\ callers["scheduled"] = "idle"
    /\ scheduler_job' = <<[scheduler_job[1] EXCEPT
                              !.next_run_time = scheduler_job[1].next_run_time
                                                   + scheduler_job[1].interval]>>
    /\ callers' = [callers EXCEPT !["scheduled"] = "dispatched"]
    /\ answer' = NoAnswer
    /\ UNCHANGED <<running, state, run_lock, run_tasks, run_id, started, schedule_config,
                   schedule_next_run, schedule_last_run, schedule_state, outsideApi>>

\* POST /api/run: api_run calls _start_run_with_config, which waits for
\* run_lock
ApiRun(c) ==
    /\ started
    /\ c # "scheduled"
    /\ callers[c] = "idle"
    /\ callers' = [callers EXCEPT ![c] = "wait"]
    /\ answer' = NoAnswer
    /\ UNCHANGED <<running, state, run_lock, run_tasks, run_id, scheduleVars, outsideApi>>

\* _handle_scheduled_run: skipped while a run is active, with the recorded
\* next_run refreshed, else as api_run
HandleScheduledRun ==
    /\ callers["scheduled"] = "dispatched"
    /\ IF running
       THEN /\ answer' = [NoAnswer EXCEPT !.kind = "skipped", !.caller = "scheduled",
                                          !.active = Cardinality(run_tasks),
                                          !.at = clock, !.runs = run_id]
            /\ callers' = [callers EXCEPT !["scheduled"] = "idle"]
            /\ schedule_next_run' = skip_refreshes_next_run(scheduler_job, schedule_next_run)
            /\ schedule_state' = _set_schedule_state(schedule_state, _UNSET, schedule_next_run')
       ELSE /\ callers' = [callers EXCEPT !["scheduled"] = "wait"]
            /\ answer' = NoAnswer
            /\ UNCHANGED <<schedule_next_run, schedule_state>>
    /\ UNCHANGED <<running, state, run_lock, run_tasks, run_id, started, schedule_config,
                   scheduler_job, schedule_last_run, outsideApi>>

\* `async with app.state.run_lock` is entered
StartRunAcquire(c) ==
    /\ callers[c] = "wait"
    /\ run_lock = NULL
    /\ run_lock' = c
    /\ callers' = [callers EXCEPT ![c] = "locked"]
    /\ answer' = NoAnswer
    /\ UNCHANGED <<running, state, run_tasks, run_id, scheduleVars, outsideApi>>

\* the body of _start_run_with_config under run_lock (main.py 570-613): it
\* has no await, so the event loop runs it in one piece, and for the
\* scheduled caller the lines of _handle_scheduled_run after it (659-664)
StartRunBody(c) ==
    /\ callers[c] = "locked"
    /\ run_declined(running) \/ run_id < MaxRuns
    /\ IF run_declined(running)
       THEN UNCHANGED <<running, state, run_tasks, run_id>>
       ELSE /\ running' = TRUE
            /\ state' = "running"
            /\ run_id' = run_id + 1
            /\ run_tasks' = run_tasks \cup {run_id + 1}
    /\ answer' = [NoAnswer EXCEPT !.kind = "start", !.caller = c,
                                  !.started = ~run_declined(running),
                                  !.active = Cardinality(run_tasks)]
    /\ run_lock' = NULL
    /\ callers' = [callers EXCEPT ![c] = "idle"]
    /\ IF c = "scheduled"
       THEN /\ schedule_next_run' = _get_next_run_iso(scheduler_job)
            /\ schedule_last_run' = IF run_declined(running) THEN schedule_last_run
                                    ELSE <<clock>>
            /\ schedule_state' = _set_schedule_state(schedule_state,
                                     IF run_declined(running) THEN _UNSET ELSE <<clock>>,
                                     schedule_next_run')
       ELSE UNCHANGED <<schedule_next_run, schedule_last_run, schedule_state>>
    /\ UNCHANGED <<started, schedule_config, scheduler_job, outsideApi>>

\* _runner of run t comes to its end (main.py 583-609): run_archive returned
\* (ok), returned with the stop event set (stopped) or raised
RunnerEnd(t, outcome) ==
    /\ t \in run_tasks
    /\ run_tasks' = run_tasks \ {t}
    /\ running' = FALSE
    /\ state' = IF outcome # "ok" THEN "error"
                ELSE IF state = "running" THEN "idle" ELSE state
    /\ answer' = NoAnswer
    /\ UNCHANGED <<run_lock, callers, run_id, scheduleVars, outsideApi>>

ApiNext ==
    \/ HourPasses
    \/ \E s \in Schedules : Startup(s)
    \/ \E s \in Schedules : ApiUpdateSchedule(s)
    \/ ScheduleTick
    \/ \E c \in Callers : ApiRun(c)
    \/ HandleScheduledRun
    \/ \E c \in Callers : StartRunAcquire(c)
    \/ \E c \in Callers : StartRunBody(c)
    \/ \E t \in run_tasks, o \in RunOutcomes : RunnerEnd(t, o)

SpecApi == Init /\ [][ApiNext]_vars

\* ======================================================= search resolution
\* ---- search_scoring.py.  Scores are in hundredths (0.35 is 35); a text is
\* the sequence of its words and None is NoText, an optional number is a
\* sequence of length 0 or 1.  normalize_text is modelled by its case
\* folding and its removal of bracketed words and of brackets; the texts used
\* carry no other punctuation.
_WEIGHT_ARTIST == 30
_WEIGHT_TRACK == 35
_WEIGHT_ALBUM == 15
_WEIGHT_DURATION == 15
_WEIGHT_BONUS == 5
_BASELINE_NEUTRAL == 60

_PENALTY_TERMS == {"cover", "tribute", "karaoke", "reaction", "8d", "nightcore", "slowed"}
_LIVE_TERMS == {"live"}
_REMASTER_TERMS == {"remaster", "remastered"}

NoText == <<>>
None == <<>>

\* str.lower of one word
lower(word) ==
    CASE word = "Artist" -> "artist"
      [] word = "Song" -> "song"
      [] word = "Album" -> "album"
      [] word = "Live" -> "live"
      [] word = "Cover" -> "cover"
      [] OTHER -> word

\* the brackets a text may carry, each a word of its own
OpenBrackets == {"(", "[", "{"}
CloseBrackets == {")", "]", "}"}

\* _BRACKET_RE.sub(" ", text): an opening bracket, the words up to the first
\* closing bracket, and that bracket are removed; an opening bracket with no
\* closing bracket after it is left for _PUNCT_RE
RECURSIVE StripBrackets(_)
StripBrackets(words) ==
    IF words = <<>> THEN <<>>
    ELSE LET closers == {k \in 2..Len(words) : words[k] \in CloseBrackets}
         IN IF Head(words) \in OpenBrackets /\ closers # {}
            THEN LET close == CHOOSE k \in closers : \A j \in closers : k <= j
                 IN StripBrackets(SubSeq(words, close + 1, Len(words)))
            ELSE <<Head(words)>> \o StripBrackets(Tail(words))

\* _PUNCT_RE.sub(" ", text): the brackets left over are punctuation
StripPunct(words) ==
    SelectSeq(words, LAMBDA w : w \notin OpenBrackets \cup CloseBrackets)

\* normalize_text: case folding, bracket removal, punctuation removal
normalize_text(value) ==
    LET folded == [k \in DOMAIN value |-> lower(value[k])]
    IN StripPunct(StripBrackets(folded))

\* tokenize: normalize_text(value).split()
tokenize(value) ==
    normalize_text(value)

TokenSet(tokens) == {tokens[k] : k \in DOMAIN tokens}

clamp01(value) ==
    IF value < 0 THEN 0 ELSE IF value > 10000 THEN 10000 ELSE value

token_similarity(target_tokens, candidate_tokens) ==
    IF target_tokens = <<>> \/ candidate_tokens = <<>> THEN 0
    ELSE LET target_set == TokenSet(target_tokens)
             candidate_set == TokenSet(candidate_tokens)
             common == Cardinality(target_set \cap candidate_set)
             longest == IF Cardinality(target_set) >= Cardinality(candidate_set)
                        THEN Cardinality(target_set) ELSE Cardinality(candidate_set)
         IN (common * 100) \div longest

duration_score(target_sec, candidate_sec) ==
    IF target_sec = None \/ candidate_sec = None THEN _BASELINE_NEUTRAL
    ELSE LET d == target_sec[1] - candidate_sec[1]
             delta == IF d < 0 THEN 0 - d ELSE d
         IN IF delta <= 2 THEN 100
            ELSE IF delta <= 5 THEN 90
            ELSE IF delta <= 10 THEN 75
            ELSE IF delta <= 20 THEN 50
            ELSE 20

_has_terms(tokens, terms) == TokenSet(tokens) \cap terms # {}

\* the multiplier in ten-thousandths: every product of 0.10, 0.85, 0.92 and
\* 0.50 is a whole number of them
_penalty_multiplier(target_track_tokens, candidate_tokens, artist_score) ==
    LET m0 == 10000
        m1 == IF _has_terms(candidate_tokens, _PENALTY_TERMS)
                 /\ ~_has_terms(target_track_tokens, _PENALTY_TERMS)
              THEN (m0 * 10) \div 100 ELSE m0
        m2 == IF _has_terms(candidate_tokens, _LIVE_TERMS) # _has_terms(target_track_tokens, _LIVE_TERMS)
              THEN (m1 * 85) \div 100 ELSE m1
        m3 == IF _has_terms(candidate_tokens, _REMASTER_TERMS) # _has_terms(target_track_tokens, _REMASTER_TERMS)
              THEN (m2 * 92) \div 100 ELSE m2
    IN IF artist_score < 50 THEN (m3 * 50) \div 100 ELSE m3

\* x or y of two texts
OrText(x, y) == IF x # NoText THEN x ELSE y

\* score_candidate: weighted_sum is in ten-thousandths, source_modifier in
\* hundredths, penalty_multiplier in ten-thousandths.  final_score is their
\* product in units of 1/80,000,000: weighted_sum is a multiple of 25 and
\* source_modifier a multiple of 5 for every score and modifier of the code,
\* and the two divisions keep the product inside 32 bits without rounding.
score_candidate(target, candidate, source_modifier) ==
    LET target_artist_tokens == tokenize(target.artist)
        target_track_tokens == tokenize(target.track)
        target_album_tokens == tokenize(target.album)
        candidate_artist_tokens == tokenize(OrText(candidate.artist, candidate.uploader))
        candidate_track_tokens == tokenize(OrText(candidate.track, candidate.title))
        candidate_album_tokens == tokenize(candidate.album)
        candidate_title_tokens == tokenize(candidate.title)
        score_artist == token_similarity(target_artist_tokens, candidate_artist_tokens)
        score_track == IF target_track_tokens # <<>>
                       THEN token_similarity(target_track_tokens, candidate_track_tokens)
                       ELSE _BASELINE_NEUTRAL
        score_album == IF target_album_tokens # <<>> /\ candidate_album_tokens # <<>>
                       THEN token_similarity(target_album_tokens, candidate_album_tokens)
                       ELSE _BASELINE_NEUTRAL
        score_duration == duration_score(target.duration_hint_sec, candidate.duration_sec)
        bonus_score == 0
        weighted_sum == clamp01(_WEIGHT_ARTIST * score_artist
                                + _WEIGHT_TRACK * score_track
                                + _WEIGHT_ALBUM * score_album
                                + _WEIGHT_DURATION * score_duration
                                + _WEIGHT_BONUS * bonus_score)
        penalty_tokens == candidate_track_tokens \o candidate_title_tokens
        penalty_multiplier == _penalty_multiplier(target_track_tokens, penalty_tokens, score_artist)
    IN [score_artist |-> score_artist, score_track |-> score_track,
        score_album |-> score_album, score_duration |-> score_duration,
        weighted_sum |-> weighted_sum, source_modifier |-> source_modifier,
        penalty_multiplier |-> penalty_multiplier,
        final_score |-> (weighted_sum \div 25) * (source_modifier \div 5) * penalty_multiplier]

\* final_score >= min_match_score, min_match_score in hundredths
ScoreAtLeast(final_score, min_match_score) ==
    final_score >= min_match_score * 800000

_DEFAULT_SOURCE_PRIORITY == <<"bandcamp", "youtube_music", "soundcloud">>

\* source_rank.get(source, 999)
source_rank(source_priority, source) ==
    IF \E k \in DOMAIN source_priority : source_priority[k] = source
    THEN CHOOSE k \in DOMAIN source_priority :
            source_priority[k] = source /\ \A j \in 1..(k - 1) : source_priority[j] # source
    ELSE 999

\* order of the url strings used
UrlOrd(url) == IF url = "u1" THEN 1 ELSE IF url = "u2" THEN 2 ELSE 3

\* the sort with no tie-break: equal final scores stay in the order given
RankedBefore_score_only(a, b, source_priority) ==
    a.breakdown.final_score > b.breakdown.final_score

\* the sort key (-final_score, source_rank, url): TRUE when a sorts strictly
\* before b
RankedBefore(a, b, source_priority) ==
    LET ra == source_rank(source_priority, a.candidate.source)
        rb == source_rank(source_priority, b.candidate.source)
    IN \/ a.breakdown.final_score > b.breakdown.final_score
       \/ /\ a.breakdown.final_score = b.breakdown.final_score
          /\ \/ ra < rb
             \/ ra = rb /\ UrlOrd(a.candidate.url) < UrlOrd(b.candidate.url)

\* list.sort is stable: an entry goes after every entry it does not precede
RECURSIVE InsertRanked(_, _, _)
InsertRanked(sorted, entry, source_priority) ==
    IF sorted = <<>> THEN <<entry>>
    ELSE IF RankedBefore(entry, Head(sorted), source_priority)
         THEN <<entry>> \o sorted
         ELSE <<Head(sorted)>> \o InsertRanked(Tail(sorted), entry, source_priority)

RECURSIVE SortRanked(_, _)
SortRanked(scored, source_priority) ==
    IF scored = <<>> THEN <<>>
    ELSE InsertRanked(SortRanked(SubSeq(scored, 1, Len(scored) - 1), source_priority),
                      scored[Len(scored)], source_priority)

\* rank_candidates: the scored candidates sorted, each with its rank
rank_candidates(target, candidates, source_priority) ==
    LET sorted == SortRanked([k \in DOMAIN candidates |->
                                 [candidate |-> candidates[k],
                                  breakdown |-> score_candidate(target, candidates[k],
                                                    candidates[k].source_modifier)]],
                             source_priority)
        WithRank(entries) ==
            [k \in DOMAIN entries |->
                [candidate |-> entries[k].candidate, breakdown |-> entries[k].breakdown,
                 rank |-> k]]
    IN CHOOSE ranked \in {WithRank(entries) : entries \in {sorted}} : TRUE

\* ---- search_adapters.py, search_resolution.py
_INTENTS == {"track", "album", "artist", "artist_collection"}

\* create_search_request: min_match_score when the payload gives no number,
\* and max_candidates_per_source likewise
min_match_score_default == 92
max_candidates_default == 5

MaxRequests == 2
MaxCandidates == 1

\* uuid4().hex of the n-th request created
RequestId(n) == IF n = 1 THEN "r1" ELSE IF n = 2 THEN "r2" ELSE "r3"

Payload(intent, album, track, min_match_score, duration_hint_sec) ==
    [intent |-> intent, artist |-> <<"Artist">>, album |-> album, track |-> track,
     min_match_score |-> min_match_score, duration_hint_sec |-> duration_hint_sec]

\* request payloads: the two of test_search_resolution.py, one with album and
\* duration hints, an artist request, and one without its track
Payloads ==
    { Payload("track", NoText, <<"Song">>, None, None),
      Payload("track", NoText, <<"Song">>, <<98>>, None),
      Payload("track", <<"Album">>, <<"Song">>, None, <<200>>),
      Payload("artist", NoText, NoText, None, None),
      Payload("track", NoText, NoText, None, None) }

Result(source, url, artist, track, album, duration_sec, is_official) ==
    [source |-> source, url |-> url, title |-> track, uploader |-> <<"Uploader">>,
     artist |-> artist, album |-> album, track |-> track,
     duration_sec |-> duration_sec, is_official |-> is_official]

\* what the adapters may return for a search
Results ==
    { Result("youtube_music", "u1", <<"Artist">>, <<"Song">>, NoText, None, TRUE),
      Result("youtube_music", "u2", <<"Artist">>, <<"Song">>, <<"Album">>, <<201>>, TRUE),
      Result("bandcamp", "u2", <<"Artist">>, <<"Song", "Live">>, <<"Album">>, <<230>>, FALSE),
      Result("youtube_music", NULL, <<"Artist">>, <<"Song">>, NoText, None, TRUE) }

\* the results of all adapters for one search, each carrying its adapter's name
AdapterAnswers ==
    UNION {[1..n -> Results] : n \in 0..MaxCandidates}

\* BandcampAdapter, YouTubeMusicAdapter, SoundCloudAdapter .source_modifier
source_modifier(source, result) ==
    CASE source = "bandcamp" -> 105
      [] source = "youtube_music" -> IF result.is_official THEN 100 ELSE 90
      [] source = "soundcloud" -> 95
      [] OTHER -> 100

\* results[:limit]
Take(seq, limit) == SubSeq(seq, 1, IF Len(seq) < limit THEN Len(seq) ELSE limit)

\* the candidate dicts _process_item builds for one source, those without a
\* url left out
CandidatesOf(source, answers) ==
    LET results == Take(SelectSeq(answers, LAMBDA r : r.source = source), max_candidates_default)
        kept == SelectSeq(results, LAMBDA r : r.url # NULL)
    IN [k \in DOMAIN kept |->
           [source |-> source, url |-> kept[k].url, title |-> kept[k].title,
            uploader |-> kept[k].uploader, artist |-> kept[k].artist,
            album |-> kept[k].album, track |-> kept[k].track,
            duration_sec |-> kept[k].duration_sec,
            source_modifier |-> source_modifier(source, kept[k]),
            is_official |-> kept[k].is_official]]

RECURSIVE GatherCandidates(_, _)
GatherCandidates(source_priority, answers) ==
    IF source_priority = <<>> THEN <<>>
    ELSE CandidatesOf(Head(source_priority), answers)
            \o GatherCandidates(Tail(source_priority), answers)

TargetOf(item) ==
    [artist |-> item.artist, track |-> item.track, album |-> item.album,
     duration_hint_sec |-> item.duration_hint_sec]

\* the ranked candidates of an item for the adapters' answers
RankedFor(item, answers) ==
    rank_candidates(TargetOf(item), GatherCandidates(_DEFAULT_SOURCE_PRIORITY, answers),
                    _DEFAULT_SOURCE_PRIORITY)

\* the threshold test of _process_item on one ranked entry
meets_threshold_never(breakdown, min_match_score) ==
    TRUE

meets_threshold(breakdown, min_match_score) ==
    ScoreAtLeast(breakdown.final_score, min_match_score)

\* index of the first ranked entry that meets the threshold, 0 when none does
Chosen(ranked, min_match_score) ==
    IF \E k \in DOMAIN ranked : meets_threshold(ranked[k].breakdown, min_match_score)
    THEN CHOOSE k \in DOMAIN ranked :
            /\ meets_threshold(ranked[k].breakdown, min_match_score)
            /\ \A j \in 1..(k - 1) : ~meets_threshold(ranked[j].breakdown, min_match_score)
    ELSE 0

_update_item_status(items, k, status, error) ==
    [items EXCEPT ![k].status = status, ![k].error = error]

_update_item_choice(items, k, source, url, score, status) ==
    [items EXCEPT ![k].chosen_source = source, ![k].chosen_url = url,
                  ![k].chosen_score = <<score>>, ![k].status = status]

\* SearchResolutionService._enqueue_download_job for an item: media_intent is
\* the item's type
_enqueue_item_job(tbl, request, item, candidate, max_attempts, now) ==
    IF has_job_for_origin(tbl, "search", request.id, candidate.url) THEN tbl
    ELSE enqueue(tbl, "search", request.id, item.item_type, candidate.source,
                 candidate.url, "tpl", max_attempts, now)

\* _process_item on item k: the item table and the job table afterwards.  The
\* search_candidates rows it inserts are not kept.
_process_item(items, tbl, request, k, answers, now) ==
    IF items[k].status # "queued" THEN [items |-> items, jobs |-> tbl]
    ELSE LET searching == [items EXCEPT ![k].status = "searching"]
             Decide(ranked, chosen) ==
                 IF ranked = <<>>
                 THEN [items |-> _update_item_status(searching, k, "failed", "no_candidates"),
                       jobs |-> tbl]
                 ELSE IF chosen = 0
                 THEN [items |-> _update_item_status(searching, k, "failed",
                                                     "no_candidate_above_threshold"),
                       jobs |-> tbl]
                 ELSE LET c == ranked[chosen].candidate
                          selected == _update_item_choice(searching, k, c.source, c.url,
                                          ranked[chosen].breakdown.final_score, "selected")
                      IN [items |-> _update_item_status(selected, k, "enqueued", NULL),
                          jobs |-> _enqueue_item_job(tbl, request, items[k], c, 0, now)]
         IN CHOOSE after \in
                {Decide(ranked, chosen) :
                    ranked \in {RankedFor(items[k], answers)},
                    chosen \in {Chosen(RankedFor(items[k], answers), request.min_match_score)}} :
                TRUE

\* _ensure_items: one item for a track or an album request that has none
_ensure_items(items, request) ==
    IF \E k \in DOMAIN items : items[k].request_id = request.id THEN items
    ELSE Append(items,
                [request_id |-> request.id, position |-> 1,
                 item_type |-> IF request.intent = "track" THEN "track" ELSE "album",
                 artist |-> request.artist, album |-> request.album,
                 track |-> IF request.intent = "track" THEN request.track ELSE NoText,
                 duration_hint_sec |-> request.duration_hint_sec,
                 status |-> "queued", chosen_source |-> NULL, chosen_url |-> NULL,
                 chosen_score |-> None, error |-> NULL])

ItemsOf(items, request_id) == {k \in DOMAIN items : items[k].request_id = request_id}

\* _finalize_request: the request's status and error
_finalize_request(items, request_id) ==
    LET statuses == {items[k].status : k \in ItemsOf(items, request_id)}
    IN IF statuses \cap {"queued", "searching", "candidate_found", "selected"} # {}
       THEN [status |-> "running", error |-> NULL]
       ELSE IF "enqueued" \in statuses
       THEN [status |-> "completed", error |-> NULL]
       ELSE [status |-> "failed", error |-> "no_items_enqueued"]

RECURSIVE ProcessItems(_, _, _, _, _, _)
ProcessItems(items, tbl, request, todo, answers, now) ==
    IF todo = {} THEN [items |-> items, jobs |-> tbl]
    ELSE LET k == CHOOSE k \in todo : \A j \in todo : k <= j
             step == IF items[k].status \in {"queued", "searching", "candidate_found"}
                     THEN _process_item(items, tbl, request, k, answers, now)
                     ELSE [items |-> items, jobs |-> tbl]
         IN ProcessItems(step.items, step.jobs, request, todo \ {k}, answers, now)

CreateSearchRequest(payload) ==
    /\ Len(search_requests) < MaxRequests
    /\ payload.intent \in _INTENTS
    /\ payload.artist # NoText
    /\ payload.intent = "track" => payload.track # NoText
    /\ payload.intent = "album" => payload.album # NoText
    /\ search_requests' = Append(search_requests,
          [id |-> RequestId(Len(search_requests) + 1), created_at |-> _utc_now,
           intent |-> payload.intent, artist |-> payload.artist,
           album |-> payload.album, track |-> payload.track,
           min_match_score |-> IF payload.min_match_score = None
                               THEN min_match_score_default
                               ELSE payload.min_match_score[1],
           duration_hint_sec |-> payload.duration_hint_sec,
           status |-> "queued", error |-> NULL])
    /\ resolved' = NoResolved
    /\ UNCHANGED <<search_items, queueVars, coreVars, apiVars, pureVars, downtimeVars, deliveryVars, statusVars, passVars>>

\* _claim_next_request: a queued request with the oldest created_at
Claimable(i) ==
    /\ i \in DOMAIN search_requests
    /\ search_requests[i].status = "queued"
    /\ \A j \in DOMAIN search_requests :
          search_requests[j].status = "queued"
             => TextLE(search_requests[i].created_at, search_requests[j].created_at)

\* run_search_resolution_once, which holds the service lock from the claim to
\* the finalisation; answers is what the adapters return during the pass.
\* The clock stands still in this specification, so every queued request is
\* an oldest one.
RunSearchResolutionOnce(i, answers) ==
    /\ Claimable(i)
    /\ LET request == search_requests[i]
       IN IF request.intent \in {"artist", "artist_collection"}
          THEN /\ search_requests' = [search_requests EXCEPT ![i].status = "failed",
                                                             ![i].error = "not_implemented"]
               /\ UNCHANGED <<search_items, jobs, inserted>>
          ELSE \E ensured \in {_ensure_items(search_items, request)} :
               \E done \in {ProcessItems(ensured, jobs, request, ItemsOf(ensured, request.id),
                                         answers, _utc_now)} :
               LET final == _finalize_request(done.items, request.id)
               IN /\ search_items' = done.items
                  /\ jobs' = done.jobs
                  /\ inserted' = IF Len(jobs') > Len(jobs)
                                 THEN Append(inserted, Identity(jobs'[Len(jobs')]))
                                 ELSE inserted
                  /\ search_requests' = [search_requests EXCEPT ![i].status = final.status,
                                                                ![i].error = final.error]
    /\ resolved' = [kind |-> "pass", request |-> i,
                    results |-> IF search_requests[i].intent \in {"artist", "artist_collection"}
                                THEN <<>> ELSE answers,
                    jobs_before |-> Len(jobs)]
    /\ UNCHANGED <<clock, last, engineVars, coreVars, apiVars, pureVars, downtimeVars, deliveryVars, statusVars, passVars>>

ResolutionNext ==
    \/ \E p \in Payloads : CreateSearchRequest(p)
    \/ \E i \in DOMAIN search_requests, a \in AdapterAnswers : RunSearchResolutionOnce(i, a)

SpecResolution == Init /\ [][ResolutionNext]_vars

\* ========================================================== scoring calls
\* score_candidate and rank_candidates called on their own, as in
\* test_search_scoring.py
ScoringTitles ==
    { <<"Song">>, <<"Song", "Cover">>, <<"Song", "(", "Cover", ")">>,
      <<"Song", "[", "Live", "]">>, <<"Song", "Live">> }

ScoringTargets ==
    { [artist |-> <<"Artist">>, track |-> t, album |-> a, duration_hint_sec |-> d] :
        t \in {<<"Song">>, <<"Song", "Cover">>}, a \in {NoText, <<"Album">>},
        d \in {None, <<200>>} }

ScoringCandidates ==
    { [artist |-> ar, uploader |-> NoText, track |-> tr, title |-> ti, album |-> NoText,
       duration_sec |-> d] :
        ar \in {<<"Artist">>, <<"Other">>}, tr \in {NoText, <<"Song">>},
        ti \in ScoringTitles, d \in {None, <<204>>} }

SourceModifiers == {90, 95, 100, 105}

\* the caller takes the result and nothing of the call remains
Return ==
    /\ pure_call # NoCallYet
    /\ pure_call' = NoCallYet
    /\ UNCHANGED outsidePure

ScoreCandidate(target, candidate, modifier) ==
    /\ pure_call = NoCallYet
    /\ pure_call' = [kind |-> "score_candidate", target |-> target, candidate |-> candidate,
                     breakdown |-> score_candidate(target, candidate, modifier)]
    /\ UNCHANGED outsidePure

ScoringNext ==
    \/ \E t \in ScoringTargets, c \in ScoringCandidates, m \in SourceModifiers :
          ScoreCandidate(t, c, m)
    \/ Return

SpecScoring == Init /\ [][ScoringNext]_vars

MaxRanked == 3

RankingCandidates ==
    { [source |-> so, url |-> u, artist |-> <<"Artist">>, uploader |-> NoText,
       track |-> NoText, title |-> ti, album |-> NoText, duration_sec |-> None,
       source_modifier |-> 100] :
        so \in {"bandcamp", "soundcloud", "youtube_music"}, u \in {"u1", "u2"},
        ti \in {<<"Song">>, <<"Song", "Live">>} }

RankingInputs == UNION {[1..n -> RankingCandidates] : n \in 0..MaxRanked}

\* source_priority arguments: the one of test_rank_candidates and its reverse
SourcePriorities == {<<"bandcamp", "soundcloud">>, <<"soundcloud", "bandcamp">>}

RankingTarget ==
    [artist |-> <<"Artist">>, track |-> <<"Song">>, album |-> NoText, duration_hint_sec |-> None]

RankCandidates(candidates, source_priority) ==
    /\ pure_call = NoCallYet
    /\ pure_call' = [kind |-> "rank_candidates", candidates |-> candidates,
                     source_priority |-> source_priority,
                     ranked |-> rank_candidates(RankingTarget, candidates, source_priority)]
    /\ UNCHANGED outsidePure

RankingNext ==
    \/ /\ pure_call = NoCallYet
       /\ \E c \in RankingInputs, p \in SourcePriorities : RankCandidates(c, p)
    \/ Return

SpecRanking == Init /\ [][RankingNext]_vars

\* ========================================================== downtime wait
\* core.py 267-313.  Time is in whole minutes; a day of the model has
\* DayMinutes of them and the wall clock starts at a midnight.  A downtime
\* window is a start and an end minute of the day.
DayMinutes == 4
MaxWall == 7

\* `sleep_seconds = 60` of a wait with no known end: one minute
SliceMinutes == 1

\* now.replace(hour=0, minute=0, ...): the midnight before an instant
Midnight(now) == now - (now % DayMinutes)

\* mutant: the start minute itself is outside the window
in_same_day_window_exclusive(start_dt, end_dt, now) ==
    start_dt < now /\ now < end_dt

\* `start_dt <= now < end_dt`
in_same_day_window(start_dt, end_dt, now) ==
    start_dt <= now /\ now < end_dt

\* _in_downtime(now, start_str, end_str): (in_window, next_allowed)
_in_downtime(now, start, end) ==
    LET start_dt == Midnight(now) + start
        end_dt == Midnight(now) + end
    IN IF start_dt <= end_dt
       THEN IF in_same_day_window(start_dt, end_dt, now)
            THEN [in_dt |-> TRUE, next_allowed |-> <<end_dt>>]
            ELSE [in_dt |-> FALSE, next_allowed |-> None]
       ELSE IF now >= start_dt
       THEN [in_dt |-> TRUE, next_allowed |-> <<end_dt + DayMinutes>>]
       ELSE IF now < end_dt
       THEN [in_dt |-> TRUE, next_allowed |-> <<end_dt>>]
       ELSE [in_dt |-> FALSE, next_allowed |-> None]

\* _watch_policy_downtime: nothing when downtime is not enabled
_watch_policy_downtime(config, now) ==
    IF ~config.enabled THEN [in_dt |-> FALSE, next_allowed |-> None]
    ELSE _in_downtime(now, config.start, config.end)

DowntimeConfigs ==
    [enabled : BOOLEAN, start : 0..(DayMinutes - 1), end : 0..(DayMinutes - 1)]

\* the wall clock advances by a minute; a sleeping thread wakes when its
\* time is up, and the steps between two sleeps take no time
MinutePasses ==
    /\ wall < MaxWall
    /\ waiter.pc # "loop"
    /\ ~(waiter.pc = "sleeping" /\ wall >= waiter.wake_at)
    /\ wall' = wall + 1
    /\ UNCHANGED <<waiter, stop_flag, outsideDowntime>>

\* stop_event.set()
SetStopEvent ==
    /\ ~stop_flag.set
    /\ stop_flag' = [set |-> TRUE, at |-> wall]
    /\ UNCHANGED <<wall, waiter, outsideDowntime>>

\* _await_downtime_end up to its loop (core.py 297-303)
AwaitDowntimeEnd(config) ==
    /\ waiter.pc = "idle"
    /\ LET w == _watch_policy_downtime(config, wall)
       IN waiter' = [waiter EXCEPT !.enabled = config.enabled, !.start = config.start,
                                   !.end = config.end, !.called_at = wall,
                                   !.next_allowed = w.next_allowed,
                                   !.returned_at = wall,
                                   !.pc = IF w.in_dt THEN "loop" ELSE "returned"]
    /\ UNCHANGED <<wall, stop_flag, outsideDowntime>>

\* one turn of `while in_dt` up to time.sleep (core.py 304-312): the stop
\* event is tested, then the thread sleeps until next_allowed
AwaitLoop ==
    /\ waiter.pc = "loop"
    /\ IF stop_flag.set
       THEN waiter' = [waiter EXCEPT !.pc = "returned", !.returned_at = wall]
       ELSE LET remaining == IF waiter.next_allowed # None
                             THEN waiter.next_allowed[1] - wall
                             ELSE SliceMinutes
                sleep_seconds == IF remaining > 0 THEN remaining ELSE 0
            IN waiter' = [waiter EXCEPT !.pc = "sleeping", !.slept_at = wall,
                                        !.wake_at = wall + sleep_seconds]
    /\ UNCHANGED <<wall, stop_flag, outsideDowntime>>

\* time.sleep returns and the window is looked up again (core.py 313)
AwaitWake ==
    /\ waiter.pc = "sleeping"
    /\ wall >= waiter.wake_at
    /\ LET w == _watch_policy_downtime([enabled |-> waiter.enabled, start |-> waiter.start,
                                        end |-> waiter.end], wall)
       IN waiter' = [waiter EXCEPT !.next_allowed = w.next_allowed,
                                   !.returned_at = wall,
                                   !.pc = IF w.in_dt THEN "loop" ELSE "returned"]
    /\ UNCHANGED <<wall, stop_flag, outsideDowntime>>

DowntimeNext ==
    \/ MinutePasses
    \/ SetStopEvent
    \/ \E c \in DowntimeConfigs : AwaitDowntimeEnd(c)
    \/ AwaitLoop
    \/ AwaitWake

SpecDowntime == Init /\ [][DowntimeNext]_vars

\* ======================================================== client delivery
\* core.py 168-232: one delivery handle, its expiry watcher thread, and the
\* consumers that try to pick the file up.  The consumer's sequence of calls
\* (claim, stream, mark delivered, finalize) is not in the source files and
\* follows the specification's description of a pickup.  Time is the wall
\* clock of the downtime section, in units of which the timeout takes
\* DeliveryTimeout.
DeliveryTimeout == 2

Consumers == {"c1", "c2"}

\* mutant: a served entry can be claimed again
_acquire_refuses_ignoring_served(entry, now) ==
    \/ ~entry.present
    \/ now >= entry.expires_at

\* _acquire_client_delivery returns None: no entry, already served, or expired
_acquire_refuses(entry, now) ==
    \/ ~entry.present
    \/ entry.served
    \/ now >= entry.expires_at

\* _register_client_delivery: the entry is stored and the watcher started
RegisterClientDelivery ==
    /\ ~delivery.registered
    /\ wall + DeliveryTimeout <= MaxWall
    /\ delivery' = [registered |-> TRUE, present |-> TRUE, file |-> TRUE,
                    expires_at |-> wall + DeliveryTimeout, event |-> FALSE,
                    served |-> FALSE, delivered |-> FALSE]
    /\ watcher' = "waiting"
    /\ UNCHANGED <<consumers, wall, waiter, stop_flag, outsideDelivery>>

\* time passes; the watcher's wait does not outlast its timeout
DeliveryTimePasses ==
    /\ wall < MaxWall
    /\ ~(watcher = "waiting" /\ wall >= delivery.expires_at)
    /\ wall' = wall + 1
    /\ UNCHANGED <<delivery, watcher, consumers, waiter, stop_flag, outsideDelivery>>

\* a consumer calls _acquire_client_delivery
AcquireClientDelivery(c) ==
    /\ delivery.registered
    /\ consumers[c].pc = "idle"
    /\ IF _acquire_refuses(delivery, wall)
       THEN /\ consumers' = [consumers EXCEPT ![c].pc = "refused"]
            /\ UNCHANGED delivery
       ELSE /\ consumers' = [consumers EXCEPT ![c].pc = "streaming", ![c].claimed = TRUE,
                                              ![c].claimed_at = wall]
            /\ delivery' = [delivery EXCEPT !.served = TRUE]
    /\ UNCHANGED <<watcher, wall, waiter, stop_flag, outsideDelivery>>

\* the consumer has streamed the file and calls
\* _mark_client_delivery(delivered=True)
MarkClientDelivery(c) ==
    /\ consumers[c].pc = "streaming"
    /\ consumers' = [consumers EXCEPT ![c].pc = "marked"]
    /\ delivery' = IF delivery.present
                   THEN [delivery EXCEPT !.delivered = TRUE, !.event = TRUE]
                   ELSE delivery
    /\ UNCHANGED <<watcher, wall, waiter, stop_flag, outsideDelivery>>

\* _finalize_client_delivery: the entry is popped and its file removed
_finalize_client_delivery(entry) ==
    IF ~entry.present THEN entry
    ELSE [entry EXCEPT !.present = FALSE, !.file = FALSE]

\* the consumer calls _finalize_client_delivery after its pickup
FinalizeClientDelivery(c) ==
    /\ consumers[c].pc = "marked"
    /\ consumers' = [consumers EXCEPT ![c].pc = "done"]
    /\ delivery' = _finalize_client_delivery(delivery)
    /\ UNCHANGED <<watcher, wall, waiter, stop_flag, outsideDelivery>>

\* _expire: event.wait returned True, the watcher thread ends
WatcherSeesEvent ==
    /\ watcher = "waiting"
    /\ delivery.event
    /\ watcher' = "ended"
    /\ UNCHANGED <<delivery, consumers, wall, waiter, stop_flag, outsideDelivery>>

\* _expire: event.wait timed out, _finalize_client_delivery(timeout=True)
WatcherTimesOut ==
    /\ watcher = "waiting"
    /\ wall >= delivery.expires_at
    /\ ~delivery.event
    /\ watcher' = "ended"
    /\ delivery' = _finalize_client_delivery(delivery)
    /\ UNCHANGED <<consumers, wall, waiter, stop_flag, outsideDelivery>>

DeliveryNext ==
    \/ RegisterClientDelivery
    \/ DeliveryTimePasses
    \/ \E c \in Consumers : AcquireClientDelivery(c)
    \/ \E c \in Consumers : MarkClientDelivery(c)
    \/ \E c \in Consumers : FinalizeClientDelivery(c)
    \/ WatcherSeesEvent
    \/ WatcherTimesOut

SpecDelivery == Init /\ [][DeliveryNext]_vars

\* ==================================================== filename sanitizing
\* core.py sanitize_for_filesystem on names over a small alphabet: a letter,
\* two of the characters the first substitution removes, a space, a tab
\* (whitespace and a control character), U+0001 (a control character that is
\* not whitespace), and "e", the combining acute accent and their composed
\* form for the normalization.
MaxName == 4

\* the default of the maxlen parameter, 180 in the source
maxlen == 3

UnsafeChars == {"\\", "/", ":", "*", "?", "\"", "<", ">", "|"}

Whitespace == {" ", "TAB"}

ControlChars == {"TAB", "U+0001"}

NameChars == {"a", "/", "?", " ", "TAB", "U+0001", "e", "U+0301", "U+00E9"}

RECURSIVE NamesUpTo(_)
NamesUpTo(n) ==
    IF n = 0 THEN {<<>>}
    ELSE LET shorter == NamesUpTo(n - 1)
         IN shorter \cup {Append(s, ch) : s \in {t \in shorter : Len(t) = n - 1}, ch \in NameChars}

\* re.sub(r"[\\/:*?\"<>|]+", "", name)
RemoveUnsafe(name) ==
    SelectSeq(name, LAMBDA ch : ch \notin UnsafeChars)

\* re.sub(r"\s+", " ", name)
RECURSIVE CollapseWhitespace(_)
CollapseWhitespace(name) ==
    IF name = <<>> THEN <<>>
    ELSE IF Head(name) \in Whitespace
         THEN IF Len(name) > 1 /\ name[2] \in Whitespace
              THEN CollapseWhitespace(Tail(name))
              ELSE <<" ">> \o CollapseWhitespace(Tail(name))
         ELSE <<Head(name)>> \o CollapseWhitespace(Tail(name))

RECURSIVE lstrip(_)
lstrip(name) ==
    IF name # <<>> /\ Head(name) \in Whitespace THEN lstrip(Tail(name)) ELSE name

RECURSIVE rstrip(_)
rstrip(name) ==
    IF name # <<>> /\ name[Len(name)] \in Whitespace
    THEN rstrip(SubSeq(name, 1, Len(name) - 1))
    ELSE name

strip(name) == rstrip(lstrip(name))

\* unicodedata.normalize("NFC", name): "e" followed by the combining acute
\* accent composes to U+00E9
RECURSIVE normalize_NFC(_)
normalize_NFC(name) ==
    IF Len(name) < 2 THEN name
    ELSE IF name[1] = "e" /\ name[2] = "U+0301"
         THEN <<"U+00E9">> \o normalize_NFC(Tail(Tail(name)))
         ELSE <<Head(name)>> \o normalize_NFC(Tail(name))

sanitize_for_filesystem(name) ==
    IF name = <<>> THEN <<>>
    ELSE LET safe == RemoveUnsafe(name)
             spaced == strip(CollapseWhitespace(safe))
             composed == normalize_NFC(spaced)
         IN IF Len(composed) > maxlen
            THEN rstrip(SubSeq(composed, 1, maxlen))
            ELSE composed

SanitizeForFilesystem(name) ==
    /\ pure_call = NoCallYet
    /\ pure_call' = [kind |-> "sanitize", name |-> name, out |-> sanitize_for_filesystem(name)]
    /\ UNCHANGED outsidePure

SanitizeNext ==
    \/ /\ pure_call = NoCallYet
       /\ \E name \in NamesUpTo(MaxName) : SanitizeForFilesystem(name)
    \/ Return

SpecSanitize == Init /\ [][SanitizeNext]_vars

\* ======================================================= progress counter
\* job_queue.py _record_progress as the workers of the sources call it after
\* a terminal outcome.  run_once sets progress_total to None, so the percent
\* branch is not taken.  The status lock is held inside _status_set only.
MaxOutcomes == 6

\* getattr(self.status, "progress_current", 0) or 0, read without the lock
RecordProgressRead(s) ==
    /\ recorders[s].pc = "idle"
    /\ outcomes + Cardinality({t \in Sources : recorders[t].pc = "read"}) < MaxOutcomes
    /\ recorders' = [recorders EXCEPT ![s] = [pc |-> "read", current |-> progress_current]]
    /\ UNCHANGED <<progress_current, outcomes, outsideStatus>>

\* current += 1; _status_set(self.status, "progress_current", current)
RecordProgressWrite(s) ==
    /\ recorders[s].pc = "read"
    /\ progress_current' = recorders[s].current + 1
    /\ recorders' = [recorders EXCEPT ![s] = [pc |-> "idle", current |-> 0]]
    /\ outcomes' = outcomes + 1
    /\ UNCHANGED outsideStatus

\* the supervisor and the workers go on beside the recording; the clock of
\* the queue stands for the rest of the program
StatusNext ==
    \/ \E s \in Sources : RecordProgressRead(s)
    \/ \E s \in Sources : RecordProgressWrite(s)

SpecStatus == Init /\ [][StatusNext]_vars

\* ====================================================== adapter and history
\* jobs of both origins worked off by the engine, with the history tables
\* the adapter writes: playlist jobs as the queue tests enqueue them, search
\* jobs as the resolver does.  The clock stands still, no download fails, and
\* the adapter's steps are those of job_queue.py:794-872, which the program
\* reaches only once build_output_filename accepts the adapter's call.
AdapterNext ==
    \/ \E u \in Urls : Enqueue("playlist", "PL123", "youtube", u, 0)
    \/ \E u \in Urls : EnqueueDownloadJob("r1", "youtube", u, 0, FALSE)
    \/ RunUntilIdle
    \/ SupervisorIterate
    \/ JoinWorkers
    \/ \E s \in Sources : WorkerClaim(s)
    \/ \E s \in Sources : ExecuteJob(s)
    \/ \E s \in Sources, subscribe_mode \in BOOLEAN : AdapterCompletes(s, subscribe_mode)

SpecAdapter == Init /\ [][AdapterNext]_vars

\* ======================================================= download executor
\* core.py download_with_ytdlp_auto: the native attempt, then the hardened
\* attempt plan.  What yt-dlp leaves in the staging directory on an attempt
\* is an input: no file (the attempt raised or wrote nothing) or a file with
\* its extension and the streams ffprobe reports.
MaxPlan == 2

NoFile == [ext |-> "none", has_video |-> FALSE, has_audio |-> FALSE]

AttemptOutputs ==
    {NoFile,
     [ext |-> "webm", has_video |-> TRUE, has_audio |-> TRUE],
     [ext |-> "mp4", has_video |-> TRUE, has_audio |-> FALSE],
     [ext |-> "webm", has_video |-> FALSE, has_audio |-> TRUE],
     [ext |-> "m4a", has_video |-> FALSE, has_audio |-> TRUE]}

\* the outputs of the attempts of a hardened plan, in order
PlanOutputs == UNION {[1..n -> AttemptOutputs] : n \in 1..MaxPlan}

audio_exts == {"m4a", "mp3", "opus", "aac"}

\* the native path's test: audio_only_output or not has_audio
native_rejects(file) ==
    \/ file.ext \in audio_exts
    \/ ~file.has_video
    \/ ~file.has_audio

\* download_with_ytdlp_native: the chosen file, NoFile for None
download_with_ytdlp_native(output) ==
    IF output = NoFile THEN NoFile
    ELSE IF native_rejects(output) THEN NoFile
    ELSE output

\* download_with_ytdlp_hardened: the first attempt that leaves a file returns it
RECURSIVE download_with_ytdlp_hardened(_)
download_with_ytdlp_hardened(outputs) ==
    IF outputs = <<>> THEN NoFile
    ELSE IF Head(outputs) # NoFile THEN Head(outputs)
    ELSE download_with_ytdlp_hardened(Tail(outputs))

\* download_with_ytdlp_auto: native first, the hardened plan when it gave no file
download_with_ytdlp_auto(native_output, hardened_outputs) ==
    IF download_with_ytdlp_native(native_output) # NoFile
    THEN download_with_ytdlp_native(native_output)
    ELSE download_with_ytdlp_hardened(hardened_outputs)

\* audio_mode is what _resolve_download_format made of the request
DownloadWithYtdlp(audio_mode, native_output, hardened_outputs) ==
    /\ pure_call' = [kind |-> "download", audio_mode |-> audio_mode,
                     native_output |-> native_output, hardened_outputs |-> hardened_outputs,
                     native |-> download_with_ytdlp_native(native_output),
                     file |-> download_with_ytdlp_auto(native_output, hardened_outputs)]
    /\ UNCHANGED outsidePure

DownloadNext ==
    \/ /\ pure_call = NoCallYet
       /\ \E audio_mode \in BOOLEAN, n \in AttemptOutputs, h \in PlanOutputs :
             DownloadWithYtdlp(audio_mode, n, h)
    \/ Return

SpecDownload == Init /\ [][DownloadNext]_vars

\* ===================================================== resolution passes
\* run_search_resolution_once step by step, one step per statement on the
\* database, next to cancel_search_request, which does not take the service
\* lock and so runs between any two steps of a pass.

\* a track request with a min_match_score of 0.5, which the answers can
\* reach, and an artist request
PassPayloads ==
    { Payload("track", NoText, <<"Song">>, <<50>>, None),
      Payload("artist", NoText, NoText, None, None) }

\* _list_items: the request's rows as read at that instant
_list_items(items, request_id) ==
    LET RECURSIVE Rows(_)
        Rows(k) == IF k > Len(items) THEN <<>>
                   ELSE IF items[k].request_id = request_id
                   THEN <<[item |-> k, status |-> items[k].status]>> \o Rows(k + 1)
                   ELSE Rows(k + 1)
    IN Rows(1)

\* with self._lock, then _claim_next_request: queued -> resolving
PassClaim(i) ==
    /\ pass.pc = "idle"
    /\ Claimable(i)
    /\ search_requests' = [search_requests EXCEPT ![i].status = "resolving"]
    /\ pass' = [NoPass EXCEPT !.pc = "claimed", !.request = i]
    /\ UNCHANGED <<search_items, resolved, canceled, queueVars, coreVars, apiVars, pureVars,
                   downtimeVars, deliveryVars, statusVars>>

\* an artist request is failed; any other gets its items, status running,
\* and the pass reads the items it will visit
PassStart ==
    /\ pass.pc = "claimed"
    /\ LET i == pass.request
           request == search_requests[i]
       IN IF request.intent \in {"artist", "artist_collection"}
          THEN /\ search_requests' = [search_requests EXCEPT ![i].status = "failed",
                                                             ![i].error = "not_implemented"]
               /\ pass' = NoPass
               /\ UNCHANGED search_items
          ELSE /\ search_items' = _ensure_items(search_items, request)
               /\ search_requests' = [search_requests EXCEPT
                                         ![i].status = "running",
                                         ![i].error = NULL]
               /\ pass' = [pass EXCEPT !.pc = "items",
                                       !.todo = _list_items(search_items', request.id)]
    /\ UNCHANGED <<resolved, canceled, queueVars, coreVars, apiVars, pureVars,
                   downtimeVars, deliveryVars, statusVars>>

\* the loop over the items read, up to _process_item's UPDATE ... WHERE
\* status='queued'
PassNextItem ==
    /\ pass.pc = "items"
    /\ pass.todo # <<>>
    /\ LET k == Head(pass.todo).item
       IN IF /\ Head(pass.todo).status \in {"queued", "searching", "candidate_found"}
             /\ search_items[k].status = "queued"
          THEN /\ search_items' = [search_items EXCEPT ![k].status = "searching"]
               /\ pass' = [pass EXCEPT !.pc = "searching", !.item = k, !.todo = Tail(@)]
          ELSE /\ pass' = [pass EXCEPT !.todo = Tail(@)]
               /\ UNCHANGED search_items
    /\ UNCHANGED <<search_requests, resolved, canceled, queueVars, coreVars, apiVars, pureVars,
                   downtimeVars, deliveryVars, statusVars>>

\* adapter.search_track or search_album raises: nothing in _process_item or
\* run_search_resolution_once catches it, the lock is released and the pass
\* is over
PassAdapterRaises ==
    /\ pass.pc = "searching"
    /\ pass' = NoPass
    /\ UNCHANGED <<search_requests, search_items, resolved, canceled, queueVars, coreVars,
                   apiVars, pureVars, downtimeVars, deliveryVars, statusVars>>

\* the adapters answer: no candidates or none above the threshold fails the
\* item; else candidate_found and then the choice with status selected
PassResolve(answers) ==
    /\ pass.pc = "searching"
    /\ LET k == pass.item
           request == search_requests[pass.request]
       IN \E ranked \in {RankedFor(search_items[k], answers)} :
          \E chosen \in {Chosen(ranked, request.min_match_score)} :
             IF ranked = <<>>
             THEN /\ search_items' = _update_item_status(search_items, k, "failed", "no_candidates")
                  /\ pass' = [pass EXCEPT !.pc = "items", !.item = 0]
             ELSE IF chosen = 0
             THEN /\ search_items' = _update_item_status(search_items, k, "failed",
                                                         "no_candidate_above_threshold")
                  /\ pass' = [pass EXCEPT !.pc = "items", !.item = 0]
             ELSE /\ search_items' = _update_item_choice(
                                         _update_item_status(search_items, k, "candidate_found", NULL),
                                         k, ranked[chosen].candidate.source,
                                         ranked[chosen].candidate.url,
                                         ranked[chosen].breakdown.final_score, "selected")
                  /\ pass' = [pass EXCEPT !.pc = "selected",
                                          !.chosen = <<ranked[chosen].candidate>>]
    /\ UNCHANGED <<search_requests, resolved, canceled, queueVars, coreVars, apiVars, pureVars,
                   downtimeVars, deliveryVars, statusVars>>

\* _enqueue_download_job and the item's status enqueued
PassEnqueue ==
    /\ pass.pc = "selected"
    /\ LET k == pass.item
           request == search_requests[pass.request]
       IN /\ jobs' = _enqueue_item_job(jobs, request, search_items[k], pass.chosen[1], 0, _utc_now)
          /\ search_items' = _update_item_status(search_items, k, "enqueued", NULL)
    /\ inserted' = IF Len(jobs') > Len(jobs)
                   THEN Append(inserted, Identity(jobs'[Len(jobs')]))
                   ELSE inserted
    /\ pass' = [pass EXCEPT !.pc = "items", !.item = 0, !.chosen = <<>>]
    /\ UNCHANGED <<search_requests, resolved, canceled, clock, last, engineVars, coreVars,
                   apiVars, pureVars, downtimeVars, deliveryVars, statusVars>>

\* _finalize_request after the last item, and the lock released
PassFinalize ==
    /\ pass.pc = "items"
    /\ pass.todo = <<>>
    /\ LET i == pass.request
           final == _finalize_request(search_items, search_requests[i].id)
       IN search_requests' = [search_requests EXCEPT ![i].status = final.status,
                                                     ![i].error = final.error]
    /\ pass' = NoPass
    /\ UNCHANGED <<search_items, resolved, canceled, queueVars, coreVars, apiVars, pureVars,
                   downtimeVars, deliveryVars, statusVars>>

\* cancel_search_request(request_id) where it returns True: the request is
\* canceled and its unfinished items skipped, in one transaction
CancelSearchRequest(i) ==
    /\ i \in DOMAIN search_requests
    /\ search_requests[i].status \notin {"completed", "failed", "canceled"}
    /\ i \notin {c.request : c \in canceled}
    /\ search_requests' = [search_requests EXCEPT ![i].status = "canceled",
                                                  ![i].error = "canceled"]
    /\ search_items' = [k \in DOMAIN search_items |->
          IF /\ search_items[k].request_id = search_requests[i].id
             /\ search_items[k].status \in {"queued", "searching", "candidate_found", "selected"}
          THEN [search_items[k] EXCEPT !.status = "skipped", !.error = "request_canceled"]
          ELSE search_items[k]]
    /\ canceled' = canceled \cup
          {[request |-> i,
            jobs |-> Cardinality({j \in DOMAIN jobs : /\ jobs[j].origin = "search"
                                                      /\ jobs[j].origin_id = search_requests[i].id})]}
    /\ UNCHANGED <<pass, resolved, queueVars, coreVars, apiVars, pureVars,
                   downtimeVars, deliveryVars, statusVars>>

PassCreate(payload) ==
    /\ CreateSearchRequest(payload)
    /\ UNCHANGED passVars

\* the steps of a pass that returns
PassSteps ==
    \/ \E i \in 1..MaxRequests : PassClaim(i)
    \/ PassStart
    \/ PassNextItem
    \/ \E a \in AdapterAnswers : PassResolve(a)
    \/ PassEnqueue
    \/ PassFinalize

\* passes, some of which an adapter's exception ends
ResumeNext ==
    \/ \E p \in PassPayloads : PassCreate(p)
    \/ PassSteps
    \/ PassAdapterRaises

SpecResume == Init /\ [][ResumeNext]_vars

\* run_search_resolution_loop calls the pass again and again, and a pass
\* that is under way runs on
SpecResumeFair == SpecResume /\ WF_vars(PassSteps)

\* passes next to cancel calls
CancelNext ==
    \/ \E p \in PassPayloads : PassCreate(p)
    \/ PassSteps
    \/ \E i \in 1..MaxRequests : CancelSearchRequest(i)

SpecCancel == Init /\ [][CancelNext]_vars

\* ======================================================= process restarts
\* The process is killed and started again: the download_jobs table is on
\* disk and stays as it is, while the engine's semaphores, worker threads,
\* supervisor and stop event are those of a new DownloadWorkerEngine.
Crash ==
    /\ \E id \in DOMAIN jobs : jobs[id].status = "running"
    /\ semaphores' = [s \in Sources |-> 1]
    /\ workers' = [s \in Sources |-> Idle]
    /\ threads' = [s \in Sources |-> 0]
    /\ supervisor' = "idle"
    /\ stop_event' = FALSE
    /\ last' = NoCall
    /\ UNCHANGED <<jobs, clock, inserted, outsideQueue>>

\* what the engine does of its own accord, up to the call of the adapter,
\* whose download is under way when the process is killed
EngineSteps ==
    \/ RunUntilIdle
    \/ SupervisorIterate
    \/ JoinWorkers
    \/ \E s \in Sources : WorkerClaim(s)
    \/ \E s \in Sources : ExecuteJob(s)

\* playlist jobs worked off by an engine whose process may be killed while
\* a job is running; the clock stands still
CrashNext ==
    \/ \E u \in Urls, s \in Sources : Enqueue("playlist", "PL123", s, u, 0)
    \/ EngineSteps
    \/ Crash

SpecCrash == Init /\ [][CrashNext]_vars

\* the threads of a live process run on, and run_until_idle is called again
\* after a restart
SpecCrashFair == SpecCrash /\ WF_vars(EngineSteps)

\* ===================================================================== claims
Running(s) == {i \in DOMAIN jobs : jobs[i].source = s /\ jobs[i].status = "running"}

\* messages the specification's classifier text calls retryable (timeouts)
ClaimRetryable == {"Connection timed out"}

HandledError == last.op = "_handle_job_error"

\* C1: under any interleaving of the worker loops, at every instant at most
\* one job of a source has status running.
C1_AtMostOneRunningPerSource == \A s \in Sources : Cardinality(Running(s)) <= 1

\* C2: a job whose execution raised a fatal (non-retryable or unknown) error,
\* or a retryable one with attempts+1 >= max_attempts, is failed with
\* last_error set once the error is handled (no stop requested), and a job
\* that was failed is never claimed again.
C2_FatalErrorFails ==
    /\ (HandledError /\ ~last.stop
          /\ (last.err \notin ClaimRetryable \/ last.att + 1 >= last.max))
       => (jobs[last.id].status = "failed" /\ jobs[last.id].last_error = last.err)
    /\ \A i \in DOMAIN jobs : jobs[i].failed # NoTime => jobs[i].status = "failed"

RequeuedForRetry ==
    /\ jobs[last.id].status = "queued"
    /\ jobs[last.id].attempts = last.att + 1
    /\ jobs[last.id].queued = isoformat(clock + retry_delay_seconds)
    /\ TextLE(isoformat(clock + retry_delay_seconds), jobs[last.id].queued)

\* C3 as stated: a running job that fails with a retryable error and
\* attempts+1 < max_attempts goes back to queued with attempts increased by
\* one and queued_at = the retry instant >= now + retry_delay.
C3_RetryRequeues ==
    (HandledError /\ last.err \in ClaimRetryable /\ last.att + 1 < last.max)
    => RequeuedForRetry

\* C3 amended: the same, provided no stop has been requested when the error
\* is handled (with stop requested the job is canceled instead).
C3_RetryRequeuesUnlessStopped ==
    (HandledError /\ ~last.stop /\ last.err \in ClaimRetryable /\ last.att + 1 < last.max)
    => RequeuedForRetry

C3_Witness ==
    /\ HandledError /\ ~last.stop /\ last.err \in ClaimRetryable /\ last.att + 1 < last.max
    /\ jobs[last.id].status = "queued"
    /\ jobs[last.id].attempts = 1

\* C4: of two jobs of one source, the one enqueued first is the first to be
\* claimed: whenever the later one has been claimed, so has the earlier one.
C4_FifoClaim ==
    \A a, b \in DOMAIN jobs :
        (a < b /\ jobs[a].source = jobs[b].source /\ jobs[b].running # NoTime)
        => jobs[a].running # NoTime

\* job 1 has been claimed while job 2 of the same source, enqueued at the
\* same instant, is still waiting
C4_Witness ==
    /\ Len(jobs) >= 2
    /\ jobs[1].running # NoTime
    /\ jobs[2].source = jobs[1].source
    /\ jobs[2].running = NoTime
    /\ jobs[2].created_at = jobs[1].created_at

\* C5: source, url, output_template, media_intent and trace_id of every
\* stored job equal the values it was inserted with.
C5_ImmutableIdentity ==
    /\ Len(inserted) = Len(jobs)
    /\ \A i \in DOMAIN jobs : Identity(jobs[i]) = inserted[i]

\* a job that was claimed, requeued, claimed again and failed
C5_Witness ==
    \E i \in DOMAIN jobs : jobs[i].status = "failed" /\ jobs[i].attempts = 2

\* C6: a queued job is moved to running only at an instant at or after
\* its queued_at: a job whose queued_at is later than the current time is
\* not claimed.
C6_NotClaimedEarly ==
    [][\A i \in DOMAIN jobs :
          (jobs[i].status = "queued" /\ jobs'[i].status = "running")
          => TextLE(jobs[i].queued, _utc_now)]_vars

\* a job requeued for a later instant has been claimed at that instant
C6_Witness ==
    \E i \in DOMAIN jobs :
        /\ jobs[i].status = "running"
        /\ jobs[i].attempts = 1
        /\ TextLess(jobs[i].created_at, jobs[i].queued)
        /\ jobs[i].running = jobs[i].queued

MarkOps == {"mark_completed", "mark_canceled", "mark_failed"}

\* C7: a mark_* call returns True exactly when the stored status was running,
\* and then the row has the new status; otherwise the table is unchanged.
C7_MarkOnlyRunning ==
    [][\A id \in 1..MaxJobs :
          (last'.op \in MarkOps /\ last'.id = id)
          => IF id \in DOMAIN jobs /\ jobs[id].status = "running"
             THEN /\ last'.ret
                  /\ jobs'[id].status # "running"
                  /\ last'.op = "mark_completed" => jobs'[id].status = "completed"
                  /\ last'.op = "mark_canceled" => jobs'[id].status = "canceled"
                  /\ last'.op = "mark_failed" => jobs'[id].status \in {"queued", "failed"}
                  /\ \A j \in DOMAIN jobs \ {id} : jobs'[j] = jobs[j]
             ELSE ~last'.ret /\ jobs' = jobs]_vars

\* mark_failed was called on a completed job and returned False
C7_Witness ==
    /\ last.op = "mark_failed" /\ ~last.ret
    /\ last.id \in DOMAIN jobs
    /\ jobs[last.id].status = "completed"

\* C8: attempts <= max_attempts for every stored job, and a job whose
\* retryable failure reaches the cap is failed, not requeued.
C8_AttemptsCapped ==
    /\ \A i \in DOMAIN jobs : jobs[i].attempts <= jobs[i].max_attempts
    /\ (HandledError /\ ~last.stop /\ last.err \in ClaimRetryable /\ last.att + 1 >= last.max)
       => jobs[last.id].status = "failed"

Active(i) == jobs[i].status \in {"queued", "running"}

\* C9: the store never holds two jobs in status queued or running with the
\* same (source, url).
C9_NoDuplicateActive ==
    \A i, j \in DOMAIN jobs :
        (i # j /\ Active(i) /\ Active(j) /\ jobs[i].source = jobs[j].source)
        => jobs[i].url # jobs[j].url

ForOrigin(ids) ==
    {i \in ids : /\ jobs[i].origin = "search"
                 /\ jobs[i].origin_id = last.origin_id
                 /\ jobs[i].url = last.url}

\* C10: resolving an item whose chosen url already has a job for the request
\* adds no job, and the number of jobs of that (origin, origin_id, url) is
\* one after the call when it was at most one before.
C10_OriginEnqueueIdempotent ==
    last.op = "_enqueue_download_job"
    => /\ ForOrigin(1..last.n) # {} => Len(jobs) = last.n
       /\ Cardinality(ForOrigin(1..last.n)) <= 1 => Cardinality(ForOrigin(DOMAIN jobs)) = 1

C10_Witness ==
    /\ last.op = "_enqueue_download_job"
    /\ Cardinality(ForOrigin(1..last.n)) = 1
    /\ Cardinality(ForOrigin(DOMAIN jobs)) = 1
    /\ Len(jobs) = last.n

\* ------------------------------------------------------- discovery claims
Elems(seq) == {seq[k] : k \in 1..Len(seq)}

\* obs describes a playlist iteration that went past the empty-listing check
Observed(mode) == obs.kind = "playlist" /\ obs.mode = mode /\ obs.videos # <<>>

SeenOf(playlist_id) == {row.video_id : row \in {x \in playlist_videos : x.playlist_id = playlist_id}}

\* C11: a full-mode pass over a listing starts download work for exactly the
\* listed items that are not in the downloads log.
C11_FullStartsUnlogged ==
    Observed("full") => Elems(obs.started) = {v \in Elems(obs.videos) : v \notin downloads}

\* the items of a newest-first listing that come before the first seen one
RECURSIVE NewPrefix(_, _)
NewPrefix(videos, seen) ==
    IF videos = <<>> \/ Head(videos) \in seen THEN <<>>
    ELSE <<Head(videos)>> \o NewPrefix(Tail(videos), seen)

\* C12: in subscribe mode on a playlist observed before, the work started is
\* the listed items before the first already-seen one, newest first, in order.
C12_SubscribeCutoff ==
    (Observed("subscribe") /\ ~obs.first)
    => obs.started = NewPrefix(obs.videos, SeenOf(obs.playlist_id))

\* C13: the first subscribe observation starts no work and leaves every listed
\* item seen with downloaded = 0; a later observation that lists only seen
\* items starts no work either.
C13_SubscribeSeeding ==
    /\ (Observed("subscribe") /\ obs.first)
       => /\ obs.started = <<>>
          /\ \A v \in Elems(obs.videos) :
                [playlist_id |-> obs.playlist_id, video_id |-> v, downloaded |-> 0]
                    \in playlist_videos
    /\ (Observed("subscribe") /\ ~obs.first /\ Elems(obs.videos) \subseteq SeenOf(obs.playlist_id))
       => obs.started = <<>>

\* a second observation of a two-item listing seeded by a first one
C13_Witness ==
    /\ Observed("subscribe") /\ ~obs.first
    /\ Len(obs.videos) = 2 /\ obs.videos[1] # obs.videos[2]
    /\ \A v \in Elems(obs.videos) :
          [playlist_id |-> obs.playlist_id, video_id |-> v, downloaded |-> 0] \in playlist_videos
    /\ obs.started = <<>>

\* C14: a seen row whose downloaded flag is 1 keeps it through every
\* mark_video_seen and mark_video_downloaded.
C14_DownloadedLatch ==
    [][\A row \in playlist_videos :
          row.downloaded = 1 => row \in playlist_videos']_vars

\* mark_video_seen(downloaded=False) was called on a row that is downloaded
C14_Witness ==
    /\ obs.kind = "mark_video_seen" /\ ~obs.ok
    /\ [playlist_id |-> obs.playlist_id, video_id |-> obs.videos[1], downloaded |-> 1]
          \in playlist_videos

\* C15: after a successful copy the item is in the downloads log, and for a
\* subscribe playlist its seen row has downloaded = 1, whether or not the
\* item was in the log before.
C15_RecordIdempotent ==
    (obs.kind = "after_copy" /\ obs.ok)
    => /\ obs.videos[1] \in downloads
       /\ obs.mode = "subscribe"
          => [playlist_id |-> obs.playlist_id, video_id |-> obs.videos[1], downloaded |-> 1]
                \in playlist_videos

\* ------------------------------------------------------------ lock claims
PastLockCheck == {r \in Runners : runs[r].pc \in {"open", "init", "loop", "join", "finally"}}
Working == {r \in Runners : runs[r].pc \in {"loop", "join"}}

\* C17: of run_once invocations that overlap, at most one gets past the lock
\* file check and works.
C17_LockExcludes == Cardinality(Working) <= 1

\* C18: when no run_once invocation is active, no lock file is left.
C18_LockRemoved == (\A r \in Runners : runs[r].pc = "idle") => ~lock_file

\* ------------------------------------------------------- run guard claims
\* C16: at most one run is active and holds running = TRUE; a request made
\* while a run is active is declined and starts none.
C16_SingleRun ==
    /\ Cardinality(run_tasks) <= 1
    /\ running <=> run_tasks # {}
    /\ (answer.kind = "start" /\ answer.active > 0) => (~answer.started /\ Cardinality(run_tasks) = answer.active)

\* a request was declined while the run of an earlier one is active
C16_Witness ==
    /\ answer.kind = "start" /\ ~answer.started
    /\ running /\ Cardinality(run_tasks) = 1

\* ------------------------------------------------------ resolution claims
\* the request of the pass just made, and its item
PassRequest == search_requests[resolved.request]
PassItems == {k \in DOMAIN search_items : search_items[k].request_id = PassRequest.id}
PassRanked(k) == RankedFor(search_items[k], resolved.results)
SearchJobsOf(request_id) ==
    {j \in DOMAIN jobs : jobs[j].origin = "search" /\ jobs[j].origin_id = request_id}

\* the adapters returned one candidate, with the target's artist and track
\* and a source modifier of 1.0
ExactCandidatePass ==
    /\ resolved.kind = "pass"
    /\ PassRequest.intent = "track"
    /\ PassRequest.min_match_score = min_match_score_default
    /\ Len(resolved.results) = 1
    /\ resolved.results[1].url # NULL
    /\ resolved.results[1].artist = PassRequest.artist
    /\ resolved.results[1].track = PassRequest.track
    /\ source_modifier(resolved.results[1].source, resolved.results[1]) = 100

\* C19: after a resolution pass on a track request with the default
\* min_match_score, for which an adapter returned a candidate with exactly the
\* target's artist and track and source modifier 1.0, the item is enqueued
\* with the candidate's url as chosen_url, the request is completed, and
\* exactly one download job has origin search and the request's id.
C19_ExactMatchEnqueued ==
    ExactCandidatePass =>
        /\ \A k \in PassItems :
              /\ search_items[k].status = "enqueued"
              /\ search_items[k].chosen_url = resolved.results[1].url
        /\ PassRequest.status = "completed"
        /\ Cardinality(SearchJobsOf(PassRequest.id)) = 1

\* the pass found candidates for item k and none reached the threshold
NoneAboveThreshold(k) ==
    /\ PassRanked(k) # <<>>
    /\ \A n \in DOMAIN PassRanked(k) :
          ~ScoreAtLeast(PassRanked(k)[n].breakdown.final_score, PassRequest.min_match_score)

\* C20: after a resolution pass in which an item had candidates and none of
\* them had final_score >= the request's min_match_score, the item is failed
\* with error no_candidate_above_threshold, no download job was enqueued for
\* it, and the request, all of whose items failed, is failed.
C20_ThresholdFailure ==
    (resolved.kind = "pass" /\ PassRequest.intent \in {"track", "album"}) =>
        \A k \in PassItems :
            NoneAboveThreshold(k) =>
                /\ search_items[k].status = "failed"
                /\ search_items[k].error = "no_candidate_above_threshold"
                /\ Len(jobs) = resolved.jobs_before
                /\ SearchJobsOf(PassRequest.id) = {}
                /\ (\A j \in PassItems : search_items[j].status = "failed")
                      => PassRequest.status = "failed"

C20_Witness ==
    /\ resolved.kind = "pass"
    /\ PassRequest.intent = "track"
    /\ PassRequest.status = "failed"
    /\ \E k \in PassItems :
          /\ NoneAboveThreshold(k)
          /\ search_items[k].error = "no_candidate_above_threshold"

\* --------------------------------------------------------- scoring claims
\* the words of a text as written, case folded, brackets and their contents
\* included
WordsAsWritten(value) == {lower(value[k]) : k \in DOMAIN value}

\* the last call scored a candidate whose title carries a penalty term the
\* target's track does not carry, and to which no other penalty applies
PenaltyTermCase ==
    /\ pure_call.kind = "score_candidate"
    /\ WordsAsWritten(pure_call.candidate.title) \cap _PENALTY_TERMS # {}
    /\ WordsAsWritten(pure_call.target.track) \cap _PENALTY_TERMS = {}
    /\ WordsAsWritten(pure_call.candidate.title) \cap (_LIVE_TERMS \cup _REMASTER_TERMS) = {}
    /\ WordsAsWritten(pure_call.candidate.track) \cap (_LIVE_TERMS \cup _REMASTER_TERMS) = {}
    /\ pure_call.breakdown.score_artist >= 50

\* C21: a candidate whose title contains a penalty term that the target does
\* not contain, in parentheses or not, is scored with penalty_multiplier 0.10
\* and a final_score strictly below its weighted_sum.
C21_PenaltyTermApplied ==
    PenaltyTermCase =>
        /\ pure_call.breakdown.penalty_multiplier = 1000
        /\ pure_call.breakdown.final_score < pure_call.breakdown.weighted_sum * 8000

\* position of a source in source_priority, 0 when it is not listed
IndexIn(source_priority, source) ==
    IF \E k \in DOMAIN source_priority : source_priority[k] = source
    THEN CHOOSE k \in DOMAIN source_priority : source_priority[k] = source
    ELSE 0

Occurrences(seq, x) == Cardinality({k \in DOMAIN seq : seq[k] = x})

\* entry a may stand directly before entry b in the ranking
InRankOrder(a, b, source_priority) ==
    LET ia == IndexIn(source_priority, a.candidate.source)
        ib == IndexIn(source_priority, b.candidate.source)
    IN \/ a.breakdown.final_score > b.breakdown.final_score
       \/ /\ a.breakdown.final_score = b.breakdown.final_score
          /\ (ia # 0 /\ ib # 0) => ia <= ib
          /\ (ia # 0 /\ ib # 0 /\ ia = ib) => UrlOrd(a.candidate.url) <= UrlOrd(b.candidate.url)

\* C22: rank_candidates returns the candidates it was given, ordered by
\* final_score descending, equal final scores by the index of the source in
\* source_priority and then by url, with ranks 1..n in that order.
C22_RankOrder ==
    pure_call.kind = "rank_candidates" =>
        LET ranked == pure_call.ranked
            given == pure_call.candidates
        IN /\ Len(ranked) = Len(given)
           /\ \A k \in DOMAIN given :
                 Occurrences(given, given[k])
                    = Cardinality({n \in DOMAIN ranked : ranked[n].candidate = given[k]})
           /\ \A k \in DOMAIN ranked :
                 /\ ranked[k].rank = k
                 /\ ranked[k].breakdown.final_score
                       = score_candidate(RankingTarget, ranked[k].candidate,
                                         ranked[k].candidate.source_modifier).final_score
           /\ \A k \in 1..(Len(ranked) - 1) :
                 InRankOrder(ranked[k], ranked[k + 1], pure_call.source_priority)

\* a ranking in which a tie on final_score between two listed sources was
\* given in the opposite order, and a tie within one source on the url too
C22_Witness ==
    /\ pure_call.kind = "rank_candidates"
    /\ Len(pure_call.ranked) = 3
    /\ pure_call.ranked[1].breakdown.final_score = pure_call.ranked[3].breakdown.final_score
    /\ pure_call.ranked[1].candidate.source = pure_call.ranked[2].candidate.source
    /\ pure_call.ranked[1].candidate.url # pure_call.ranked[2].candidate.url
    /\ pure_call.ranked[3].candidate.source # pure_call.ranked[1].candidate.source
    /\ IndexIn(pure_call.source_priority, pure_call.ranked[3].candidate.source) # 0
    /\ IndexIn(pure_call.source_priority, pure_call.ranked[1].candidate.source) # 0
    /\ pure_call.candidates[1] = pure_call.ranked[3].candidate
    /\ pure_call.candidates[2] = pure_call.ranked[2].candidate

\* -------------------------------------------------------- schedule claims
\* C23: a scheduler tick handled while a run is active starts no run, and the
\* recorded next_run becomes the scheduler's next fire time, which lies after
\* the tick.
C23_SkippedTickRefreshes ==
    answer.kind = "skipped" =>
        /\ run_id = answer.runs
        /\ Cardinality(run_tasks) = answer.active
        /\ callers["scheduled"] = "idle"
        /\ IF scheduler_job = NoJob THEN schedule_next_run = NoTime
           ELSE /\ schedule_next_run = <<scheduler_job[1].next_run_time>>
                /\ scheduler_job[1].next_run_time > answer.at

\* the tick of hour 1 of an hourly schedule was skipped for a run in progress
C23_Witness ==
    /\ answer.kind = "skipped" /\ answer.at = 1
    /\ running
    /\ scheduler_job # NoJob
    /\ scheduler_job[1].interval = 1 /\ schedule_next_run = <<2>>
    /\ ~schedule_config.run_on_startup

\* C24: after the schedule is applied with enabled set, the next fire time is
\* the moment of the application plus interval_hours; a reconfiguration
\* dispatches no run, whatever run_on_startup says; process start dispatches
\* one exactly when the schedule is enabled with run_on_startup.
C24_ApplySchedulesNextInterval ==
    /\ (answer.kind \in {"apply", "startup"} /\ schedule_config.enabled) =>
          /\ scheduler_job # NoJob
          /\ scheduler_job[1].next_run_time = answer.at + schedule_config.interval_hours
          /\ schedule_next_run = <<answer.at + schedule_config.interval_hours>>
    /\ answer.kind = "apply" =>
          /\ callers["scheduled"] = answer.scheduled
          /\ run_id = answer.runs
          /\ Cardinality(run_tasks) = answer.active
    /\ answer.kind = "startup" =>
          /\ callers["scheduled"] = IF schedule_config.enabled /\ schedule_config.run_on_startup
                                    THEN "dispatched" ELSE "idle"
          /\ run_id = answer.runs

\* a reconfiguration at hour 1 with run_on_startup set, no dispatch pending
C24_Witness ==
    /\ answer.kind = "apply" /\ answer.at = 1
    /\ schedule_config.enabled /\ schedule_config.run_on_startup
    /\ schedule_config.interval_hours = 1
    /\ callers["scheduled"] = "idle"
    /\ ~running

\* --------------------------------------------------------- downtime claims
\* the window [start, end) of each day, over midnight when start > end
InWindow(t, start, end) ==
    LET minute == t % DayMinutes
    IN IF start <= end THEN start <= minute /\ minute < end
       ELSE minute >= start \/ minute < end

\* the first instant from t on at which the window is not active
WindowEnd(t, start, end) ==
    CHOOSE u \in t..(t + DayMinutes) :
        /\ ~InWindow(u, start, end)
        /\ \A v \in t..(u - 1) : InWindow(v, start, end)

CalledInDowntime ==
    /\ waiter.pc # "idle"
    /\ waiter.enabled
    /\ InWindow(waiter.called_at, waiter.start, waiter.end)

\* C25: a wait that started while downtime was active has returned only at
\* the end instant of the window, or with the stop event set.
C25_WaitCoversDowntime ==
    (CalledInDowntime /\ waiter.pc = "returned") =>
        \/ waiter.returned_at = WindowEnd(waiter.called_at, waiter.start, waiter.end)
        \/ stop_flag.set /\ stop_flag.at <= waiter.returned_at

\* the wait returned at the end of a window that runs over midnight
C25_Witness ==
    /\ CalledInDowntime /\ waiter.pc = "returned"
    /\ ~stop_flag.set
    /\ waiter.start > waiter.end
    /\ waiter.called_at >= waiter.start
    /\ waiter.returned_at = Midnight(waiter.called_at) + DayMinutes + waiter.end

\* C26: a downtime wait sleeps in slices of at most 60 s, and once the stop
\* event is set the wait is over by the end of the current slice.
C26_SlicedStoppableWait ==
    /\ waiter.pc = "sleeping" => waiter.wake_at - waiter.slept_at <= SliceMinutes
    /\ (waiter.pc \in {"loop", "sleeping"} /\ stop_flag.set)
          => wall <= stop_flag.at + SliceMinutes

\* --------------------------------------------------------- delivery claims
Claimed == {c \in Consumers : consumers[c].claimed}

Sanitized == pure_call.kind = "sanitize"

CharsOf(name) == {name[i] : i \in 1..Len(name)}

IsNormalized(name) ==
    \A i \in 1..(Len(name) - 1) : ~(name[i] = "e" /\ name[i + 1] = "U+0301")

\* C28: the output of sanitize_for_filesystem contains none of the
\* characters \ / : * ? " < > |, contains no control character, is
\* Unicode-normalized and is at most maxlen codepoints long.
C28_SanitizedName ==
    Sanitized =>
        /\ CharsOf(pure_call.out) \cap UnsafeChars = {}
        /\ CharsOf(pure_call.out) \cap ControlChars = {}
        /\ IsNormalized(pure_call.out)
        /\ Len(pure_call.out) <= maxlen

\* the parts of C28 other than the control characters
C28_SafeNormalizedShort ==
    Sanitized =>
        /\ CharsOf(pure_call.out) \cap UnsafeChars = {}
        /\ IsNormalized(pure_call.out)
        /\ Len(pure_call.out) <= maxlen

\* only whitespace control characters are taken out of a name
C28_WhitespaceControlsOnly ==
    Sanitized => "TAB" \notin CharsOf(pure_call.out)

\* ---------------------------------------------------- supervisor claims
Iterated == last.op = "run_until_idle"

\* C29: at every instant at most one worker thread of a source is alive: a
\* source has a live thread exactly when its permit is taken, so
\* _start_worker starts no second worker while one holds the permit, and a
\* worker that has left its loop, by return or by exception, has given the
\* permit back.
C29_OneWorkerPerSource ==
    \A s \in Sources :
        /\ threads[s] <= 1
        /\ threads[s] = 1 <=> workers[s].pc # "none"
        /\ threads[s] = 1 <=> semaphores[s] = 0

\* an iteration called _start_worker for a source with a ready job while
\* that source's worker was executing another job
C29_Witness ==
    /\ Iterated
    /\ \E s \in list_ready_sources(jobs, _utc_now) :
          /\ threads[s] = 1
          /\ workers[s].pc \in {"execute", "adapter"}

QueuedJobs == {i \in DOMAIN jobs : jobs[i].status = "queued"}

\* C30: an iteration of run_until_idle leaves the loop exactly when stop is
\* requested or no job is queued (ready or scheduled for a retry) and no
\* worker is alive.
C30_ExitsWhenIdle ==
    Iterated => (last.ret <=> (last.stop \/ (QueuedJobs = {} /\ ~_any_active_workers)))

\* the loop was left without a stop request after a job had been retried
\* and then left behind by its worker
C30_Witness ==
    /\ Iterated /\ last.ret /\ ~last.stop
    /\ \E i \in DOMAIN jobs : jobs[i].status = "running" /\ jobs[i].attempts > 0

\* the loop went on because the only queued job waits for its retry
C30_WaitsForRetry ==
    /\ Iterated /\ ~last.ret
    /\ ~_any_active_workers
    /\ QueuedJobs # {}
    /\ \A i \in QueuedJobs : TextLess(_utc_now, jobs[i].queued)

\* ---------------------------------------------------------- stop claims
WorkerSteps == {"_execute_job", "YouTubeAdapter.execute", "_handle_job_error"}

StoppedInFlight == last.op \in WorkerSteps /\ last.stop

\* C31: a job that is in flight when stop is requested is canceled with
\* reason "canceled": after the worker's step on it the job has status
\* canceled and last_error "canceled", and is not queued, failed or completed.
C31_StopCancelsInFlight ==
    StoppedInFlight =>
        /\ jobs[last.id].status = "canceled"
        /\ jobs[last.id].last_error = "canceled"

\* the part of C31 that holds: an exception handled while stop is set
\* cancels the job with reason "canceled"
C31_ErrorUnderStopCancels ==
    (StoppedInFlight /\ last.op = "_handle_job_error") =>
        /\ jobs[last.id].status = "canceled"
        /\ jobs[last.id].last_error = "canceled"

\* a job whose download had ended when stop was requested is canceled with
\* reason "canceled", through the TypeError of the file name call
C31_DownloadedUnderStop ==
    /\ StoppedInFlight /\ last.err = template_override_error
    /\ jobs[last.id].status = "canceled" /\ jobs[last.id].last_error = "canceled"

\* a job stopped before its download is canceled with another reason
C31_OtherReason ==
    StoppedInFlight /\ jobs[last.id].status = "canceled"
        /\ jobs[last.id].last_error \in {"canceled before start", "canceled before download"}

\* ------------------------------------------------------- progress claims
\* C32: progress_current equals the number of terminal outcomes the workers
\* have recorded: concurrent recordings lose no update.
C32_NoLostUpdate ==
    progress_current = outcomes

\* two outcomes were recorded and one of them is missing from the counter
C32_LostUpdate ==
    /\ outcomes = 2
    /\ progress_current = 1
    /\ \A s \in Sources : recorders[s].pc = "idle"

\* --------------------------------------------------------- history claims
Completed == {i \in DOMAIN jobs : jobs[i].status = "completed"}

CompletedByAdapter == last.op = "YouTubeAdapter.execute" /\ jobs[last.id].status = "completed"

SeenDownloaded(playlist_id, video_id) ==
    \E row \in playlist_videos :
        row.playlist_id = playlist_id /\ row.video_id = video_id /\ row.downloaded = 1

C33_PlaylistJobsRecorded ==
    \A i \in Completed : jobs[i].origin = "playlist" => VideoOf(jobs[i]) \in downloads

\* a search job was completed and the downloads log has no row for it
C33_SearchJobUnrecorded ==
    \E i \in Completed : jobs[i].origin = "search" /\ VideoOf(jobs[i]) \notin downloads

\* the seen row of a subscribe-mode job is not marked downloaded after the
\* job's INSERT met a row the downloads log already had for the video
C33_SeenNotMarked ==
    /\ CompletedByAdapter /\ last.subscribe
    /\ ~SeenDownloaded(jobs[last.id].origin_id, VideoOf(jobs[last.id]))

\* -------------------------------------------------------- download claims
Downloaded == pure_call.kind = "download"

AudioOnly(file) == file # NoFile /\ (file.ext \in audio_exts \/ ~file.has_video)

\* C34: when video was requested the executor does not return an audio-only
\* file, whichever path produced it.
C34_NoAudioOnlyForVideo ==
    (Downloaded /\ ~pure_call.audio_mode) => ~AudioOnly(pure_call.file)

\* the part of C34 that holds: the native path returns no audio-only file
C34_NativeRejectsAudioOnly ==
    Downloaded => ~AudioOnly(pure_call.native)

\* the native path rejected and the hardened plan returned an audio-only file
\* for a video request
C34_HardenedAudioOnly ==
    /\ Downloaded /\ ~pure_call.audio_mode
    /\ pure_call.native = NoFile
    /\ AudioOnly(pure_call.file)

\* ------------------------------------------------------------ pass claims
RequestItems(i) ==
    {k \in DOMAIN search_items : search_items[k].request_id = search_requests[i].id}

UnfinishedItems(i) ==
    {k \in RequestItems(i) :
        search_items[k].status \in {"queued", "searching", "candidate_found", "selected"}}

\* no pass is at work on request i, which is running with an unfinished item
LeftRunning(i) ==
    /\ i \in DOMAIN search_requests
    /\ search_requests[i].status = "running"
    /\ UnfinishedItems(i) # {}
    /\ pass.request # i

Settled(i) ==
    /\ i \in DOMAIN search_requests
    /\ search_requests[i].status \in {"completed", "failed", "canceled"}
    /\ UnfinishedItems(i) = {}

\* C35: a search request left in running because some item is still queued,
\* searching, candidate_found or selected is picked up by a later resolution
\* pass: every such item eventually reaches enqueued, skipped or failed and
\* the request a terminal status.
C35_LeftRunningIsResumed ==
    \A i \in 1..MaxRequests : LeftRunning(i) ~> Settled(i)

\* a request is left running with its item searching, and every other
\* request is settled: no later pass has anything to claim
C35_LeftRunningForGood ==
    /\ pass.pc = "idle"
    /\ \E i \in DOMAIN search_requests : LeftRunning(i)
    /\ \A i \in DOMAIN search_requests : ~Claimable(i)
    /\ Len(search_requests) = MaxRequests

\* C35, what holds: a request that is left running is never claimed again
C35_RunningNeverClaimed ==
    [][\A i \in 1..MaxRequests : LeftRunning(i) => LeftRunning(i)']_vars

\* C38: once cancel_search_request has returned True for a request, its
\* status stays canceled, none of its items leaves a terminal status, and no
\* download job for it is enqueued afterwards.
C38_CancelHolds ==
    \A c \in canceled :
        /\ search_requests[c.request].status = "canceled"
        /\ UnfinishedItems(c.request) = {}
        /\ Cardinality(SearchJobsOf(search_requests[c.request].id)) = c.jobs

\* a canceled request is completed by the pass that was at work on it, with
\* a download job enqueued after the cancel
C38_CanceledThenCompleted ==
    \E c \in canceled :
        /\ search_requests[c.request].status = "completed"
        /\ Cardinality(SearchJobsOf(search_requests[c.request].id)) > c.jobs

\* C38, what holds: a cancel of a request no pass is at work on stays
C38_CancelAtRestHolds ==
    [][\A c \in canceled :
          (/\ pass.request # c.request
           /\ search_requests[c.request].status = "canceled"
           /\ UnfinishedItems(c.request) = {})
          => (/\ search_requests[c.request].status' = "canceled"
              /\ UnfinishedItems(c.request)' = {}
              /\ SearchJobsOf(search_requests[c.request].id)'
                    = SearchJobsOf(search_requests[c.request].id))]_vars

\* ----------------------------------------------------------- crash claims
\* job id is running and no worker of the process holds it
Orphaned(id) ==
    /\ id \in DOMAIN jobs
    /\ jobs[id].status = "running"
    /\ \A s \in Sources : workers[s].job # id

\* C36: if the process stops while a job is running, then after restart the
\* job is eventually claimed again or moved to a terminal status: no job
\* stays running forever without an owning worker.
C36_OrphanIsRecovered ==
    \A id \in 1..MaxJobs : Orphaned(id) ~> ~Orphaned(id)

\* after a restart run_until_idle has come and gone and the job of the
\* killed worker is still running
C36_OrphanAfterRestart ==
    /\ \E id \in DOMAIN jobs : Orphaned(id)
    /\ last.op = "run_until_idle" /\ last.ret
    /\ ~_any_active_workers

\* C36, what holds: nothing the engine or the store does touches a running
\* job that no worker holds
C36_OrphanStaysRunning ==
    [][\A id \in 1..MaxJobs : Orphaned(id) => Orphaned(id)']_vars

\* ------------------------------------------------------- finalize claims
\* the worker's step on a job whose download returned a file, no stop set
ArtifactHandled ==
    /\ last.op = "_handle_job_error"
    /\ last.err = template_override_error
    /\ ~last.stop

\* C37: a claimed job whose download attempt produces a valid artifact, with
\* no stop requested, ends in status completed: the post-download steps do
\* not raise and leave the job running or failed.
C37_ArtifactCompletes ==
    (ArtifactHandled \/ (last.op = "YouTubeAdapter.execute" /\ last.ret /\ ~last.stop))
        => jobs[last.id].status = "completed"

\* the download returned a file and the job is left running, its worker
\* back at claim_next
C37_ArtifactLeftRunning ==
    /\ ArtifactHandled
    /\ jobs[last.id].status = "running"
    /\ \A s \in Sources : workers[s].job # last.id

\* C37, what holds: no job the engine works on is ever completed
C37_NeverCompleted ==
    \A i \in DOMAIN jobs : jobs[i].status # "completed"

\* --------------------------------------------------- playlist loop claims
\* run 1 has left the playlist loop
LoopLeft == runs[1].pc \in {"join", "finally"}

\* C39: within one run over several playlists, handling one playlist never
\* prevents the later playlists of the run from being discovered and
\* processed: with no stop requested the loop is left only after the last
\* playlist.
C39_LaterPlaylistsProcessed ==
    LoopLeft => runs[1].i > Len(runs[1].playlists)

\* the subscribe playlist's scan reached a seen video and the run's loop was
\* left with the full-mode playlist behind it never looked at
C39_SubscribeStopEndsRun ==
    /\ runs[1].pc = "join"
    /\ runs[1].i < Len(runs[1].playlists)
    /\ obs.kind = "playlist" /\ obs.mode = "subscribe"
    /\ runs[1].playlists[runs[1].i + 1].mode = "full"

\* C39, what holds: only the subscribe-mode stop at a seen video leaves the
\* loop early; a listing, an empty playlist and a skip of a downloaded
\* video go on with the next playlist
C39_OnlySubscribeStopLeaves ==
    (LoopLeft /\ runs[1].i <= Len(runs[1].playlists)) =>
        /\ runs[1].playlists[runs[1].i].mode = "subscribe"
        /\ playlist_has_seen(playlist_videos, runs[1].playlists[runs[1].i].playlist_id)

\* ------------------------------------------------- schedule state claims
\* C40: after any sequence of scheduler operations the persisted schedule
\* state equals the in-memory state: an update of next_run alone leaves the
\* persisted last_run as it is, and clearing next_run clears the persisted
\* next_run.
C40_PersistedEqualsMemory ==
    /\ schedule_state.last_run = schedule_last_run
    /\ schedule_state.next_run = schedule_next_run

\* a tick after a scheduled run refreshed next_run and the persisted
\* last_run is gone
C40_LastRunDeleted ==
    /\ schedule_last_run # NoTime
    /\ schedule_state.last_run = NoTime
    /\ schedule_state.next_run = schedule_next_run

\* the schedule was disabled and the persisted next_run is still there
C40_NextRunNotCleared ==
    /\ scheduler_job = NoJob
    /\ schedule_next_run = NoTime
    /\ schedule_state.next_run # NoTime

\* C40, what holds: a next_run that is set is persisted as set, and a
\* persisted last_run is the one in memory
C40_SetValuesPersisted ==
    /\ schedule_next_run # NoTime => schedule_state.next_run = schedule_next_run
    /\ schedule_state.last_run # NoTime => schedule_state.last_run = schedule_last_run

====
